---------------------------- MODULE Spec2Model ----------------------------
(***************************************************************************)
(* A model of the start-up data pipeline of gamefaqs-server.               *)
(*                                                                         *)
(*   InitService            src/src/services/InitService.ts                *)
(*   ArchiveDownloadService src/unnamed/part_009                           *)
(*   ArchiveExtractor       src/src/services/ArchiveExtractor.ts (1-246)   *)
(*   GuideImporter          src/src/services/ArchiveExtractor.ts (248-493) *)
(*   GameModel, GuideModel  src/src/models/Game.ts, Guide.ts               *)
(*   DatabaseService        src/unnamed/part_002                           *)
(*                                                                         *)
(* Every run of code between two awaited events, or between two published  *)
(* snapshots, is one action; ipc, dlpc, expc and impc are the positions of  *)
(* initialize, downloadArchive, extractArchive and importFromDirectory.    *)
(* The store is the set of guide rows and game rows; a batch transaction   *)
(* is the snapshot taken at BEGIN: COMMIT forgets it, ROLLBACK restores    *)
(* it.  The outcome of every operation of the environment that the code    *)
(* handles (a request, a stream, a 7z run, a COMMIT, an unlink) is chosen  *)
(* by the action that models the handler.  Status messages and file names  *)
(* are left out: they are formatted from the values kept here.             *)
(***************************************************************************)
EXTENDS Integers, Sequences, FiniteSets, TLC

(***************************************************************************)
(* Bounds of the model.                                                    *)
(***************************************************************************)
\* guide files in the directory that importFromDirectory scans
NumFiles == 3
\* files per batch transaction (100 in the source, scaled to the model)
BATCH_SIZE == 2
\* distinct external game ids that the directory names can carry
NumExt == 2
\* entries of the outer ZIP container
MaxEntries == 2
\* chunks of the download stream (one byte each)
MaxBytes == 4
\* guide rows created through GuideModel.create
MaxGuides == 2
\* the limit argument of GuideModel.search
MaxLimit == 2
\* callbacks that subscribe to the status
NumObservers == 2

FileIds == 1..NumFiles
Observers == 1..NumObservers
ExtIds == 1..NumExt
\* no external id derivable from the path (gameId null)
NoExt == 0
\* no game row (game_id NULL, lookup miss, cache miss)
NoGame == 0
\* "ok": parses and inserts; "unreadable": parseGuide throws;
\* "rejected": GuideModel.create is rejected by a constraint of the store
Kinds == {"ok", "unreadable", "rejected"}
PlainFile == [ext |-> NoExt, kind |-> "ok"]
NoTx == [active |-> FALSE, guides |-> {}, games |-> {}]
\* content-length values that the HEAD probe reports (0: none)
Totals == {0, 1, 2}
\* progress.percent values that node-7z reports
Percents == {0, 50, 100}

VARIABLES
    \* ---- file system ----
    fileInfo,       \* file id -> [ext, kind]: what the path and the content give
    guideDisk,      \* guide files that exist under the extraction directory
    innerDisk,      \* inner 7z archives that exist under the extraction directory
    archiveFile,    \* the downloaded archive exists at the destination path
    extractedDir,   \* the extraction directory exists
    \* ---- store (DatabaseService, GuideModel, GameModel) ----
    guides,         \* guide rows visible to the connection: [id, file, game]
    games,          \* game rows visible to the connection: [id, ext]
    tx,             \* open transaction: the snapshot ROLLBACK restores
    nextId,         \* the next fresh row id (nanoid)
    ftsMeta,        \* rows of guides_fts_meta: [rowid, guide_id, title, tags]
    ftsContent,     \* rows of guides_fts_content: [rowid, guide_id, content]
    lastSearch,     \* the call of GuideModel.search that has just returned
    \* ---- GuideImporter ----
    isImporting,
    gameIdCache,    \* external id -> game row id, NoGame when absent
    stats,          \* [imported, skipped, errors]
    guideFiles,     \* the scanned files, in scan order
    batchStart,     \* i of the batch loop
    batchPos,       \* position inside the batch of the running inner loop
    importedPaths,  \* files inserted by the open batch transaction
    impc,           \* position of importFromDirectory
    \* ---- ArchiveExtractor ----
    extractorProgress, \* the progress field
    expc,           \* position of extractArchive
    entryCount,     \* entries of the opened container
    zipRead,        \* entries read so far
    sevenZipArchives, \* inner archives written by stage 1, in order
    \* ---- ArchiveDownloadService ----
    dlpc,           \* position of downloadArchive
    totalBytes,     \* content-length of the HEAD probe, 0 when unknown
    downloaded,     \* bytes received
    dlSettled,      \* the promise: "pending", "resolved", "rejected"
    fileStreamOpen, \* the write stream is neither failed nor destroyed
    unlinkPending,  \* fs.unlink calls issued and not yet completed
    \* ---- InitService ----
    status,         \* the published snapshot: [stage, progress, guideCount, gameCount, error]
    ipc,            \* position of initialize; "none": no InitService in play
    \* ---- history (not program state) ----
    unlinked,       \* files the importer deleted from disk
    unlinkFailed,   \* files whose unlinkSync threw (ignored by the code)
    rolledBack,     \* batch starts whose transaction was rolled back
    retried,        \* files retried one by one after a rollback
    faulted,        \* files whose one-by-one retry hit a store fault (disk full)
    attempted,      \* inner archives whose extraction has ended, either way
    failed7z,       \* inner archives whose extraction failed
    keptArchives,   \* inner archives whose unlinkSync threw (warning only)
    entryFailures,  \* entries whose read stream or write failed in stage 1
    containerFailed,\* the container could not be opened or its reader failed
    fileCreated,    \* the destination file of the download was created
    interrupted,    \* the download stream failed mid-stream
    dlUnlinkFailed, \* an fs.unlink of the destination failed (ignored)
    hadGuides,      \* the store held a guide when initialize was called
    cleanupFailed,  \* history: a deletion of the archive or the directory threw
    priorRun,       \* how the run of initialize before this one ended
    priorCount,     \* the guides in the store when that run ended
    \* ---- InitService observers ----
    listeners,      \* the registered callbacks, in registration order
    delivered,      \* observer -> calls made to it by the last publish
    registeredBefore, \* the observers registered when the last publish began
    lastBeh,        \* observer -> what its callback did in the last publish
    escaped,        \* an exception of a callback left notifyListeners
    \* ---- request handling during an import ----
    pendingRequests, \* batch starts during which a request arrived, not handled
    yields,         \* batch starts after which the import yielded
    handledRequests, \* batch starts whose request was handled in a yield
    \* ---- the schema of the database file ----
    schemaVersions, \* the versions recorded in schema_version ({}: no table)
    guidesTable,    \* "absent", "legacy" (no ai_analyzed_at) or "current"
    pendingMigrations, \* the migrations runMigrations still has to apply
    mpc,            \* position of runMigrations
    applied,        \* history: the versions the last runMigrations applied
    startups,       \* history: the calls of runMigrations so far
    startedEmpty,   \* history: the database was empty before the first call
    interruptedAt,  \* history: the versions whose migration was cut short
    \* ---- single calls ----
    gameRow,        \* game id -> the row of games (NoRow: no such row)
    lastUpdate,     \* the last updateCompletionPercentage call and its result
    pathCall,       \* the last importSingleGuideSync: path and game link
    parsed,         \* the last parseGuide: file and ParsedGuide
    readyResponse,  \* the response of GET /api/health/ready being sent
    \* ---- further services ----
    lastDelete,     \* the last GameModel.delete: the id and the guides of the game
    lastBulk,       \* the last GuideModel.bulkCreate: the list, the store before
    importLog,      \* history: importFromDirectory calls rejected, runs returned
    \* ---- the rate limiter of the admin routes ----
    rlStore,        \* store: ip -> WindowEntry [count, resetAt], NoEntry if none
    now,            \* Date.now()
    windowLog,      \* history: ip -> its last window [n, start, forwarded, rejected]
    lastRequest,    \* history: the last request, [ip, code]
    \* ---- batch AI analysis ----
    batchReq,       \* request -> [pc, i]: position of its handler, guides done
    batchProgress   \* OllamaService.batchProgress: [status, total, processed]

fsVars == <<fileInfo, guideDisk, innerDisk, archiveFile, extractedDir>>
storeVars == <<guides, games, tx, nextId>>
importerVars == <<isImporting, gameIdCache, stats, guideFiles, batchStart,
                  batchPos, importedPaths, impc>>
importHist == <<unlinked, unlinkFailed, rolledBack, retried, faulted>>
extractorVars == <<extractorProgress, expc, entryCount, zipRead, sevenZipArchives>>
extractHist == <<attempted, failed7z, keptArchives, entryFailures, containerFailed>>
downloadVars == <<dlpc, totalBytes, downloaded, dlSettled, fileStreamOpen,
                  unlinkPending>>
downloadHist == <<fileCreated, interrupted, dlUnlinkFailed>>
initVars == <<status, ipc>>
initHist == <<hadGuides, priorRun, priorCount, cleanupFailed>>
observerVars == <<listeners, delivered, registeredBefore, lastBeh, escaped>>
serveVars == <<pendingRequests, yields, handledRequests>>
ftsVars == <<ftsMeta, ftsContent, lastSearch>>
schemaVars == <<schemaVersions, guidesTable, pendingMigrations, mpc, applied,
                startups, startedEmpty,
               interruptedAt>>
limiterVars == <<rlStore, now, windowLog, lastRequest>>
batchVars == <<batchReq, batchProgress>>
svcVars == <<lastDelete, lastBulk, importLog, limiterVars, batchVars>>
callVars == <<gameRow, lastUpdate, pathCall, parsed, readyResponse, svcVars>>
vars == <<fsVars, storeVars, importerVars, importHist, extractorVars,
          extractHist, downloadVars, downloadHist, initVars, initHist, ftsVars, schemaVars, callVars,
          observerVars, serveVars>>

\* What an action of one component leaves alone in the others.
ImporterOnly == UNCHANGED <<innerDisk, archiveFile, extractedDir, extractorVars,
                            extractHist, downloadVars, downloadHist, ipc, initHist,
                            ftsVars, schemaVars, callVars, observerVars>>
ExtractorOnly == UNCHANGED <<archiveFile, storeVars, importerVars, importHist,
                             downloadVars, downloadHist, ipc, initHist, ftsVars, schemaVars, callVars,
                             observerVars, serveVars>>
DownloaderOnly == UNCHANGED <<fileInfo, guideDisk, innerDisk, extractedDir,
                              storeVars, importerVars, importHist, extractorVars,
                              extractHist, ipc, initHist, ftsVars, schemaVars, callVars,
                              observerVars, serveVars>>

(***************************************************************************)
(* Helpers.                                                                *)
(***************************************************************************)
Min(a, b) == IF a <= b THEN a ELSE b
Max(a, b) == IF a >= b THEN a ELSE b

RECURSIVE SortedSeq(_)
\* readdir order of a set of files: ascending file id
SortedSeq(S) ==
    IF S = {} THEN <<>>
    ELSE LET m == CHOOSE x \in S : \A y \in S : x <= y
         IN <<m>> \o SortedSeq(S \ {m})

SeqToSet(q) == {q[i] : i \in 1..Len(q)}

\* The rows a reader outside the open transaction sees.
CommittedGuides == IF tx.active THEN tx.guides ELSE guides
CommittedGames == IF tx.active THEN tx.games ELSE games

(***************************************************************************)
(* InitService.updateStatus and the three progress callbacks that          *)
(* initialize hands to the stages.  A callback acts only when initialize   *)
(* made the call (ipc is not "none").                                      *)
(***************************************************************************)
updateStatus(st, stage, progress) ==
    [st EXCEPT !.stage = stage, !.progress = progress]

\* Math.floor(progress.percentage * 0.3), percentage = downloaded/total*100
downloadPercentage(bytes, total) ==
    IF total > 0 THEN (30 * bytes) \div total ELSE 0

onDownloadProgress(st, bytes, total) ==
    IF ipc = "none" THEN st
    ELSE updateStatus(st, "downloading", downloadPercentage(bytes, total))

\* 30 + Math.floor(currentProgress * 30), currentProgress =
\* (currentArchive - 1) / totalArchives + currentArchiveProgress / 100 / totalArchives
extractPercentage(p) ==
    IF p.totalArchives > 0
    THEN 30 + ((100 * (p.currentArchive - 1) + p.currentArchiveProgress) * 30)
                 \div (100 * p.totalArchives)
    ELSE 30

onExtractProgress(st, p) ==
    IF ipc = "none" THEN st
    ELSE updateStatus(st, "extracting", extractPercentage(p))

\* 60 + Math.floor(current / Math.max(total, 1) * 40)
importPercentage(current, total) == 60 + (40 * current) \div Max(total, 1)

onImportProgress(st, current, total) ==
    IF ipc = "none" THEN st
    ELSE updateStatus(st, "importing", importPercentage(current, total))

\* A lookup that never finds the row (a query on the wrong JSON key).
findByExternalId_miss(gs, e) == NoGame

(***************************************************************************)
(* GameModel.findByExternalId: the row whose metadata.external_id is e.    *)
(***************************************************************************)
findByExternalId(gs, e) ==
    IF \E g \in gs : g.ext = e
    THEN (CHOOSE g \in gs : g.ext = e).id
    ELSE NoGame

(***************************************************************************)
(* The lookup of importSingleGuideSync: the cache first, then the store.   *)
(* NoGame means that a game row has to be created.                         *)
(***************************************************************************)
lookupGame(gs, cache, e) ==
    IF cache[e] # NoGame THEN cache[e] ELSE findByExternalId(gs, e)

(***************************************************************************)
(* GuideImporter.importSingleGuideSync(f) on store (gs, gds), cache and    *)
(* id counter nid.  fault: the store rejects the first write of this call  *)
(* for lack of resources.  The result says whether the call returned (ok)  *)
(* or threw, and what it left behind: a game row created before a rejected *)
(* guide insert stays, and so does its cache entry.                        *)
(***************************************************************************)
importSingleGuideSync(f, gs, gds, cache, nid, fault) ==
    LET e == fileInfo[f].ext
        kind == fileInfo[f].kind
        known == IF e # NoExt THEN lookupGame(gs, cache, e) ELSE NoGame
        creates == e # NoExt /\ known = NoGame
        createOk == creates /\ ~fault
        dbGameId == IF e = NoExt THEN NoGame
                    ELSE IF known # NoGame THEN known
                    ELSE nid
        gs2 == IF createOk THEN gs \cup {[id |-> nid, ext |-> e]} ELSE gs
        nid2 == IF createOk THEN nid + 1 ELSE nid
        cache2 == IF e # NoExt /\ (~creates \/ createOk)
                  THEN [cache EXCEPT ![e] = dbGameId] ELSE cache
        fkOk == dbGameId = NoGame \/ \E g \in gs2 : g.id = dbGameId
        insertOk == /\ kind = "ok"
                    /\ fkOk
                    /\ IF creates THEN createOk ELSE ~fault
    IN  IF kind = "unreadable"
        THEN [ok |-> FALSE, games |-> gs, guides |-> gds, cache |-> cache,
              nextId |-> nid]
        ELSE IF creates /\ ~createOk
        THEN [ok |-> FALSE, games |-> gs, guides |-> gds, cache |-> cache,
              nextId |-> nid]
        ELSE [ok |-> insertOk,
              games |-> gs2,
              guides |-> IF insertOk
                         THEN gds \cup {[id |-> nid2, file |-> f, game |-> dbGameId]}
                         ELSE gds,
              cache |-> cache2,
              nextId |-> IF insertOk THEN nid2 + 1 ELSE nid2]

\* The push placed outside the inner try: a failed file is pushed too.
pushImported_always(paths, f, ok) == Append(paths, f)

\* importedPaths after one file of the transaction: pushed only when the
\* import of the file returned.
pushImported(paths, f, ok) == IF ok THEN Append(paths, f) ELSE paths

\* The deletion loop placed after the try/catch instead of inside the try.
afterFailedCommit_unlink == IF importedPaths = <<>> THEN "retry" ELSE "unlink"

\* Where a failed COMMIT leads: the catch (batchError) branch, which skips
\* the deletion loop of the try block.
afterFailedCommit == "retry"

\* The batch of the running loop iteration: guideFiles.slice(i, i + BATCH_SIZE).
Batch == SubSeq(guideFiles, batchStart + 1,
                Min(batchStart + BATCH_SIZE, Len(guideFiles)))

(***************************************************************************)
(* importFromDirectory.                                                    *)
(***************************************************************************)
\* The call, up to the batch loop: the re-entrancy guard, the scan, and the
\* two progress callbacks (0 of 0, then 0 of the files found).
ImportCall ==
    /\ impc = "idle"
    /\ ipc \in {"none", "import"}
    /\ ~isImporting
    /\ isImporting' = TRUE
    /\ stats' = [imported |-> 0, skipped |-> 0, errors |-> 0]
    /\ guideFiles' = SortedSeq(guideDisk)
    /\ batchStart' = 0
    /\ batchPos' = 0
    /\ importedPaths' = <<>>
    /\ impc' = IF guideDisk = {} THEN "finish" ELSE "batch"
    /\ unlinked' = {}
    /\ unlinkFailed' = {}
    /\ rolledBack' = {}
    /\ retried' = {}
    /\ faulted' = {}
    /\ status' = onImportProgress(status, 0, Cardinality(guideDisk))
    /\ UNCHANGED <<fileInfo, guideDisk, storeVars, gameIdCache>>
    /\ yields' = {}
    /\ handledRequests' = {}
    /\ UNCHANGED pendingRequests
    /\ ImporterOnly

\* A loop iteration begins: Database.transaction opens the transaction.
BatchBegin ==
    /\ impc = "batch"
    /\ tx' = [active |-> TRUE, guides |-> guides, games |-> games]
    /\ importedPaths' = <<>>
    /\ batchPos' = 1
    /\ impc' = "insert"
    /\ status' = onImportProgress(status, batchStart, Len(guideFiles))
    /\ UNCHANGED <<fileInfo, guideDisk, guides, games, nextId, isImporting,
                   gameIdCache, stats, guideFiles, batchStart, importHist>>
    /\ UNCHANGED serveVars
    /\ ImporterOnly

\* One file of the batch inside the transaction (the inner try/catch).
BatchInsert ==
    /\ impc = "insert"
    /\ LET f == Batch[batchPos]
           r == importSingleGuideSync(f, games, guides, gameIdCache, nextId, FALSE)
       IN /\ games' = r.games
          /\ guides' = r.guides
          /\ gameIdCache' = r.cache
          /\ nextId' = r.nextId
          /\ stats' = IF r.ok
                      THEN [stats EXCEPT !.imported = @ + 1]
                      ELSE [stats EXCEPT !.errors = @ + 1]
          /\ importedPaths' = pushImported(importedPaths, f, r.ok)
    /\ IF batchPos < Len(Batch)
       THEN batchPos' = batchPos + 1 /\ impc' = "insert"
       ELSE batchPos' = 0 /\ impc' = "commit"
    /\ UNCHANGED <<fileInfo, guideDisk, tx, isImporting, guideFiles, batchStart,
                   importHist, status>>
    /\ UNCHANGED serveVars
    /\ ImporterOnly

\* COMMIT succeeds; the deletion loop over importedPaths follows.
BatchCommit ==
    /\ impc = "commit"
    /\ tx' = NoTx
    /\ batchPos' = 1
    /\ impc' = IF importedPaths = <<>> THEN "yield" ELSE "unlink"
    /\ UNCHANGED <<fileInfo, guideDisk, guides, games, nextId, isImporting,
                   gameIdCache, stats, guideFiles, batchStart, importedPaths,
                   importHist, status>>
    /\ UNCHANGED serveVars
    /\ ImporterOnly

\* A failed transaction whose guide rows stay in the table.
guidesAfterRollback_kept(t, gds) == gds

\* The guides table after ROLLBACK: as it was when the transaction began.
guidesAfterRollback(t, gds) == t.guides

\* COMMIT fails (disk full): better-sqlite3 rolls back and rethrows; the
\* catch (batchError) branch starts the one-by-one retry.  stats and
\* gameIdCache keep what the transaction function did to them.
BatchCommitFails ==
    /\ impc = "commit"
    /\ guides' = guidesAfterRollback(tx, guides)
    /\ games' = tx.games
    /\ tx' = NoTx
    /\ batchPos' = 1
    /\ impc' = afterFailedCommit
    /\ rolledBack' = rolledBack \cup {batchStart}
    /\ UNCHANGED <<fileInfo, guideDisk, nextId, isImporting, gameIdCache, stats,
                   guideFiles, batchStart, importedPaths, unlinked, unlinkFailed,
                   retried, faulted, status>>
    /\ UNCHANGED serveVars
    /\ ImporterOnly

\* fs.unlinkSync of one imported path after the commit; a throw is ignored.
BatchUnlink ==
    /\ impc = "unlink"
    /\ LET f == importedPaths[batchPos]
       IN \E fails \in BOOLEAN :
            IF fails
            THEN /\ unlinkFailed' = unlinkFailed \cup {f}
                 /\ UNCHANGED <<guideDisk, unlinked>>
            ELSE /\ guideDisk' = guideDisk \ {f}
                 /\ unlinked' = unlinked \cup {f}
                 /\ UNCHANGED unlinkFailed
    /\ IF batchPos < Len(importedPaths)
       THEN batchPos' = batchPos + 1 /\ impc' = "unlink"
       ELSE batchPos' = 0 /\ impc' = "yield"
    /\ UNCHANGED <<fileInfo, storeVars, isImporting, gameIdCache, stats,
                   guideFiles, batchStart, importedPaths, rolledBack, retried,
                   faulted, status>>
    /\ UNCHANGED serveVars
    /\ ImporterOnly

\* One file of the one-by-one retry: insert in autocommit, then unlinkSync.
RetryInsert ==
    /\ impc = "retry"
    /\ LET f == Batch[batchPos]
       IN \E fault \in BOOLEAN, fails \in BOOLEAN :
            LET r == importSingleGuideSync(f, games, guides, gameIdCache,
                                           nextId, fault)
            IN /\ (fails => r.ok)
               /\ games' = r.games
               /\ guides' = r.guides
               /\ gameIdCache' = r.cache
               /\ nextId' = r.nextId
               /\ stats' = IF r.ok
                           THEN [stats EXCEPT !.imported = @ + 1]
                           ELSE [stats EXCEPT !.errors = @ + 1]
               /\ retried' = retried \cup {f}
               /\ faulted' = IF fault THEN faulted \cup {f} ELSE faulted
               /\ IF r.ok /\ ~fails
                  THEN /\ guideDisk' = guideDisk \ {f}
                       /\ unlinked' = unlinked \cup {f}
                       /\ UNCHANGED unlinkFailed
                  ELSE /\ unlinkFailed' = IF r.ok THEN unlinkFailed \cup {f}
                                          ELSE unlinkFailed
                       /\ UNCHANGED <<guideDisk, unlinked>>
    /\ IF batchPos < Len(Batch)
       THEN batchPos' = batchPos + 1 /\ impc' = "retry"
       ELSE batchPos' = 0 /\ impc' = "yield"
    /\ UNCHANGED <<fileInfo, tx, isImporting, guideFiles, batchStart,
                   importedPaths, rolledBack, status>>
    /\ UNCHANGED serveVars
    /\ ImporterOnly

\* A loop that yields only after its last batch.
yieldsAfterBatch_last(i) == i + BATCH_SIZE >= Len(guideFiles)

\* Whether the loop awaits setImmediate after the batch that starts at i:
\* the await is unconditional.
yieldsAfterBatch(i) == TRUE

\* await setImmediate: the event loop gets a turn, then the loop goes on to
\* the next batch or ends.  The turn runs the handlers of the requests
\* whose events the loop picks up in it; which of the waiting requests
\* those are is decided by the runtime (a request on a connection that is
\* accepted in this turn is read in a later one).
BatchYield ==
    /\ impc = "yield"
    /\ batchStart' = batchStart + BATCH_SIZE
    /\ impc' = IF batchStart + BATCH_SIZE < Len(guideFiles) THEN "batch"
               ELSE "finish"
    /\ IF yieldsAfterBatch(batchStart)
       THEN /\ yields' = yields \cup {batchStart}
            /\ \E served \in SUBSET pendingRequests :
                  /\ pendingRequests' = pendingRequests \ served
                  /\ handledRequests' = handledRequests \cup served
       ELSE UNCHANGED serveVars
    /\ UNCHANGED <<fileInfo, guideDisk, storeVars, isImporting, gameIdCache,
                   stats, guideFiles, batchPos, importedPaths, importHist,
                   status>>
    /\ ImporterOnly

\* A request reaches the server while the synchronous part of a batch runs.
RequestArrives ==
    /\ impc \in {"insert", "commit", "unlink", "retry"}
    /\ batchStart \notin pendingRequests \cup handledRequests
    /\ pendingRequests' = pendingRequests \cup {batchStart}
    /\ UNCHANGED <<yields, handledRequests, fsVars, storeVars, importerVars,
                   importHist, status>>
    /\ ImporterOnly

\* The import has returned: the event loop is free and handles what waits.
RequestHandled ==
    /\ impc = "done"
    /\ pendingRequests # {}
    /\ pendingRequests' = {}
    /\ handledRequests' = handledRequests \cup pendingRequests
    /\ UNCHANGED <<yields, fsVars, storeVars, importerVars, importHist, status>>
    /\ ImporterOnly

\* The loop has ended: the totals are returned, finally clears the flag.
ImportFinish ==
    /\ impc = "finish"
    /\ isImporting' = FALSE
    /\ impc' = "done"
    /\ status' = onImportProgress(status, Len(guideFiles), Len(guideFiles))
    /\ UNCHANGED <<fileInfo, guideDisk, storeVars, gameIdCache, stats,
                   guideFiles, batchStart, batchPos, importedPaths, importHist>>
    /\ UNCHANGED serveVars
    /\ ImporterOnly


(***************************************************************************)
(* ArchiveExtractor.                                                       *)
(***************************************************************************)
\* ArchiveExtractor.updateProgress: merge the updates into the progress
\* field; the callback of the caller is run by the action that uses it.
updateProgress(p, updates) ==
    [k \in DOMAIN p |-> IF k \in DOMAIN updates THEN updates[k] ELSE p[k]]

\* The progress field of a new extractor.
IdleProgress ==
    [totalArchives |-> 0, currentArchive |-> 0, currentArchiveProgress |-> 0,
     status |-> "idle", error |-> "none"]

\* A failed inner archive that ends extractArchive (the rethrow of a
\* missing inner try/catch).
after7zFailure_throw == "failed"

\* Where the failure of one inner archive leads: the inner catch records
\* it and the loop goes on.
after7zFailure == "stage2"

\* An inner archive deleted only when its extraction succeeded.
unlinkAfter7z_onSuccess(ok) == ok

\* Whether stage 2 calls unlinkSync on an inner archive whose extraction
\* ended with outcome ok: the call follows the inner try/catch.
unlinkAfter7z(ok) == TRUE

\* The inner archive that the loop of stage 2 is at.
CurrentInner == sevenZipArchives[extractorProgress.currentArchive]

\* The entry of the container that the reader is at.
CurrentEntry == zipRead + 1

\* The process position of initialize when the process dies.
Crash(pc) == IF pc = "none" THEN "none" ELSE "crashed"

\* extractArchive is called: status "extracting", the output directory is
\* made, yauzl.open is issued.  The extractor is one object for the whole
\* process: a caller other than initialize can call it again after a call
\* has returned or thrown, and the progress record is the one that call
\* left.
ExtractCall ==
    /\ \/ ipc = "extract" /\ expc = "idle"
       \/ ipc = "none" /\ expc \in {"idle", "done", "failed"}
    /\ extractorProgress' = updateProgress(extractorProgress,
                                           [status |-> "extracting"])
    /\ status' = onExtractProgress(status, extractorProgress')
    /\ extractedDir' = TRUE
    /\ expc' = "open"
    /\ attempted' = {}
    /\ failed7z' = {}
    /\ keptArchives' = {}
    /\ entryFailures' = {}
    /\ containerFailed' = FALSE
    /\ UNCHANGED <<fileInfo, guideDisk, innerDisk, entryCount, zipRead,
                   sevenZipArchives>>
    /\ ExtractorOnly

\* The catch of extractArchive: status "error", the error is rethrown.
ExtractFails ==
    /\ extractorProgress' = updateProgress(extractorProgress,
                                [status |-> "error", error |-> "fatal"])
    /\ status' = onExtractProgress(status, extractorProgress')
    /\ expc' = "failed"

\* yauzl.open reports an error (or no zipfile): extractZipArchive rejects.
ZipOpenFails ==
    /\ expc = "open"
    /\ ExtractFails
    /\ containerFailed' = TRUE
    /\ UNCHANGED <<fsVars, entryCount, zipRead, sevenZipArchives, attempted,
                   failed7z, keptArchives, entryFailures>>
    /\ ExtractorOnly

\* yauzl.open succeeds on a container of n entries; readEntry is called.
ZipOpened ==
    /\ expc = "open"
    /\ \E n \in 0..MaxEntries : entryCount' = n
    /\ zipRead' = 0
    /\ sevenZipArchives' = <<>>
    /\ expc' = "zip"
    /\ UNCHANGED <<fsVars, extractorProgress, extractHist, status>>
    /\ ExtractorOnly

\* An entry that is a directory or not a .7z file: skipped.
ZipEntrySkipped ==
    /\ expc = "zip"
    /\ zipRead < entryCount
    /\ zipRead' = zipRead + 1
    /\ UNCHANGED <<fsVars, extractorProgress, expc, entryCount,
                   sevenZipArchives, extractHist, status>>
    /\ ExtractorOnly

\* openReadStream reports an error, or no stream: logged, next entry.
ZipEntryStreamFails ==
    /\ expc = "zip"
    /\ zipRead < entryCount
    /\ zipRead' = zipRead + 1
    /\ entryFailures' = entryFailures \cup {CurrentEntry}
    /\ UNCHANGED <<fsVars, extractorProgress, expc, entryCount,
                   sevenZipArchives, attempted, failed7z, keptArchives,
                   containerFailed, status>>
    /\ ExtractorOnly

\* The entry is piped to its file and the write stream finishes: the path
\* is pushed and the next entry is read.
ZipEntryWritten ==
    /\ expc = "zip"
    /\ zipRead < entryCount
    /\ innerDisk' = innerDisk \cup {CurrentEntry}
    /\ sevenZipArchives' = Append(sevenZipArchives, CurrentEntry)
    /\ zipRead' = zipRead + 1
    /\ UNCHANGED <<fileInfo, guideDisk, archiveFile, extractedDir,
                   extractorProgress, expc, entryCount, extractHist, status>>
    /\ ExtractorOnly

\* The write stream fails: logged, next entry; what was written of the
\* file, if it was created, stays on disk and is not in the list.
ZipEntryWriteFails ==
    /\ expc = "zip"
    /\ zipRead < entryCount
    /\ \E created \in BOOLEAN :
          innerDisk' = IF created THEN innerDisk \cup {CurrentEntry}
                       ELSE innerDisk
    /\ zipRead' = zipRead + 1
    /\ entryFailures' = entryFailures \cup {CurrentEntry}
    /\ UNCHANGED <<fileInfo, guideDisk, archiveFile, extractedDir,
                   extractorProgress, expc, entryCount, sevenZipArchives,
                   attempted, failed7z, keptArchives, containerFailed, status>>
    /\ ExtractorOnly

\* The read stream of the entry fails while it is piped: the stream has no
\* 'error' listener, so the error is thrown as an uncaught exception and
\* the process ends; extractArchive neither returns nor raises.
ZipEntryReadFails ==
    /\ expc = "zip"
    /\ zipRead < entryCount
    /\ innerDisk' = innerDisk \cup {CurrentEntry}
    /\ entryFailures' = entryFailures \cup {CurrentEntry}
    /\ expc' = "crashed"
    /\ ipc' = Crash(ipc)
    /\ UNCHANGED <<fileInfo, guideDisk, archiveFile, extractedDir,
                   extractorProgress, entryCount, zipRead, sevenZipArchives,
                   attempted, failed7z, keptArchives, containerFailed, status>>
    /\ UNCHANGED <<storeVars, importerVars, importHist, downloadVars,
                   downloadHist, initHist, ftsVars, schemaVars, callVars, observerVars,
                   serveVars>>

\* The zipfile emits 'error' while the container is read: reject.
ZipError ==
    /\ expc = "zip"
    /\ ExtractFails
    /\ containerFailed' = TRUE
    /\ UNCHANGED <<fsVars, entryCount, zipRead, sevenZipArchives, attempted,
                   failed7z, keptArchives, entryFailures>>
    /\ ExtractorOnly

\* The zipfile emits 'end': stage 1 resolves with the list, and the totals
\* of stage 2 are set (currentArchive 0).
ZipEnd ==
    /\ expc = "zip"
    /\ zipRead = entryCount
    /\ extractorProgress' = updateProgress(extractorProgress,
                               [totalArchives |-> Len(sevenZipArchives),
                                currentArchive |-> 0])
    /\ status' = onExtractProgress(status, extractorProgress')
    /\ expc' = "stage2"
    /\ UNCHANGED <<fsVars, entryCount, zipRead, sevenZipArchives, extractHist>>
    /\ ExtractorOnly

\* An iteration of stage 2 begins: the progress names inner archive i + 1
\* and Seven.extractFull is started on it.
SevenZStart ==
    /\ expc = "stage2"
    /\ extractorProgress.currentArchive < Len(sevenZipArchives)
    /\ extractorProgress' = updateProgress(extractorProgress,
                               [currentArchive |-> extractorProgress.currentArchive + 1,
                                currentArchiveProgress |-> 0])
    /\ status' = onExtractProgress(status, extractorProgress')
    /\ expc' = "sevenz"
    /\ UNCHANGED <<fsVars, entryCount, zipRead, sevenZipArchives, extractHist>>
    /\ ExtractorOnly

\* A 'progress' event of the 7z run (percent || 0); percents do not go back.
SevenZProgress ==
    /\ expc = "sevenz"
    /\ \E pct \in Percents :
          /\ pct >= extractorProgress.currentArchiveProgress
          /\ extractorProgress' = updateProgress(extractorProgress,
                                      [currentArchiveProgress |-> pct])
    /\ extractorProgress' # extractorProgress
    /\ status' = onExtractProgress(status, extractorProgress')
    /\ UNCHANGED <<fsVars, expc, entryCount, zipRead, sevenZipArchives,
                   extractHist>>
    /\ ExtractorOnly

\* The files that inner archive a holds: the guide files are spread over
\* the inner archives.
GuidesOf(a) == {f \in FileIds : ((f - 1) % MaxEntries) + 1 = a}

\* What the extracted guide files turn out to be when they are imported.
ExtractedFiles ==
    {[ext |-> 1, kind |-> "ok"], [ext |-> NoExt, kind |-> "unreadable"]}

\* fs.unlinkSync of the inner archive after its extraction has ended; a
\* throw is caught and logged.
UnlinkInner(a, ok) ==
    \E fails \in BOOLEAN :
        IF unlinkAfter7z(ok) /\ ~fails
        THEN /\ innerDisk' = innerDisk \ {a}
             /\ UNCHANGED keptArchives
        ELSE /\ keptArchives' = IF unlinkAfter7z(ok)
                                THEN keptArchives \cup {a} ELSE keptArchives
             /\ UNCHANGED innerDisk

\* The 7z run ends: its files are on disk; the inner archive is deleted.
SevenZEnd ==
    /\ expc = "sevenz"
    /\ guideDisk' = guideDisk \cup GuidesOf(CurrentInner)
    /\ \E info \in ExtractedFiles :
          fileInfo' = [f \in FileIds |-> IF f \in GuidesOf(CurrentInner)
                                         THEN info ELSE fileInfo[f]]
    /\ UnlinkInner(CurrentInner, TRUE)
    /\ attempted' = attempted \cup {CurrentInner}
    /\ expc' = "stage2"
    /\ UNCHANGED <<archiveFile, extractedDir, extractorProgress, entryCount,
                   zipRead, sevenZipArchives, failed7z, entryFailures,
                   containerFailed, status>>
    /\ ExtractorOnly

\* The 7z run fails: the inner catch records the error in the progress;
\* the inner archive is deleted.
SevenZFails ==
    /\ expc = "sevenz"
    /\ extractorProgress' = IF after7zFailure = "stage2"
                            THEN updateProgress(extractorProgress,
                                                [error |-> "7z"])
                            ELSE updateProgress(extractorProgress,
                                     [status |-> "error", error |-> "fatal"])
    /\ status' = onExtractProgress(status, extractorProgress')
    /\ UnlinkInner(CurrentInner, FALSE)
    /\ attempted' = attempted \cup {CurrentInner}
    /\ failed7z' = failed7z \cup {CurrentInner}
    /\ expc' = after7zFailure
    /\ UNCHANGED <<fileInfo, guideDisk, archiveFile, extractedDir, entryCount,
                   zipRead, sevenZipArchives, entryFailures, containerFailed>>
    /\ ExtractorOnly

\* The loop of stage 2 has ended: status "complete", the directory is
\* returned.
ExtractComplete ==
    /\ expc = "stage2"
    /\ extractorProgress.currentArchive >= Len(sevenZipArchives)
    /\ extractorProgress' = updateProgress(extractorProgress,
                                           [status |-> "complete"])
    /\ status' = onExtractProgress(status, extractorProgress')
    /\ expc' = "done"
    /\ UNCHANGED <<fsVars, entryCount, zipRead, sevenZipArchives, extractHist>>
    /\ ExtractorOnly

(***************************************************************************)
(* ArchiveDownloadService.downloadArchive.                                 *)
(***************************************************************************)
\* A promise settles once: resolve and reject after that do nothing.
settle(p, outcome) == IF p = "pending" THEN outcome ELSE p

\* An error handler that leaves the partial file where it is.
unlinkOnError_none(pending) == pending

\* An 'error' handler issues one fs.unlink on the destination.
unlinkOnError(pending) == pending + 1

\* The call up to the GET request: the directory is made, the HEAD probe
\* gives the content-length (0: no header, or the probe failed).
\* (A later run of initialize is followed up to this call.)
DownloadCall ==
    /\ dlpc = "idle"
    /\ ipc \in {"none", "download"}
    /\ priorRun = "none"
    /\ \E t \in Totals : totalBytes' = t
    /\ downloaded' = 0
    /\ dlpc' = "get"
    /\ UNCHANGED <<dlSettled, fileStreamOpen, unlinkPending, archiveFile,
                   downloadHist, status>>
    /\ DownloaderOnly

\* axios.get throws: downloadArchive rethrows, no file was created.
GetFails ==
    /\ dlpc = "get"
    /\ dlSettled' = settle(dlSettled, "rejected")
    /\ dlpc' = "done"
    /\ UNCHANGED <<totalBytes, downloaded, fileStreamOpen, unlinkPending, archiveFile,
                   downloadHist, status>>
    /\ DownloaderOnly

\* The response arrives: createWriteStream creates the destination file,
\* the response is piped to it.
GetResponds ==
    /\ dlpc = "get"
    /\ archiveFile' = TRUE
    /\ fileCreated' = TRUE
    /\ fileStreamOpen' = TRUE
    /\ dlpc' = "stream"
    /\ UNCHANGED <<totalBytes, downloaded, dlSettled, unlinkPending,
                   interrupted, dlUnlinkFailed, status>>
    /\ DownloaderOnly

\* A 'data' event: the byte count grows; the progress callback runs when
\* 500 ms have passed since the last one (due) or when the count equals
\* the announced size.  When the write stream fails, pipe unpipes and
\* pauses the response, so no chunk is delivered after that.
DataChunk ==
    /\ dlpc = "stream"
    /\ fileStreamOpen
    /\ downloaded < MaxBytes
    /\ downloaded' = downloaded + 1
    /\ \E due \in BOOLEAN :
          status' = IF due \/ downloaded' = totalBytes
                    THEN onDownloadProgress(status, downloaded', totalBytes)
                    ELSE status
    /\ UNCHANGED <<dlpc, totalBytes, dlSettled, fileStreamOpen, unlinkPending,
                   archiveFile, downloadHist>>
    /\ DownloaderOnly

\* The response ends: pipe ends the write stream.  A response that was
\* paused by a failed write stream is not read to its end.
ResponseEnd ==
    /\ dlpc = "stream"
    /\ fileStreamOpen
    /\ dlpc' = "flush"
    /\ UNCHANGED <<totalBytes, downloaded, dlSettled, fileStreamOpen, unlinkPending, archiveFile,
                   downloadHist, status>>
    /\ DownloaderOnly

\* 'finish' of the write stream: the promise resolves.
FileFinish ==
    /\ dlpc = "flush"
    /\ fileStreamOpen
    /\ fileStreamOpen' = FALSE
    /\ dlSettled' = settle(dlSettled, "resolved")
    /\ dlpc' = "done"
    /\ UNCHANGED <<totalBytes, downloaded, unlinkPending, archiveFile,
                   downloadHist, status>>
    /\ DownloaderOnly

\* 'error' of the write stream: fs.unlink is issued (its completion is not
\* awaited, its error is dropped) and the promise rejects.
FileStreamError ==
    /\ dlpc \in {"stream", "flush"}
    /\ fileStreamOpen
    /\ fileStreamOpen' = FALSE
    /\ unlinkPending' = unlinkOnError(unlinkPending)
    /\ dlSettled' = settle(dlSettled, "rejected")
    /\ interrupted' = interrupted \cup {"write"}
    /\ dlpc' = IF dlpc = "flush" THEN "done" ELSE dlpc
    /\ UNCHANGED <<totalBytes, downloaded, archiveFile, fileCreated,
                   dlUnlinkFailed, status>>
    /\ DownloaderOnly

\* 'error' of the response: the write stream is destroyed, fs.unlink is
\* issued and the promise rejects.
ResponseError ==
    /\ dlpc = "stream"
    /\ fileStreamOpen' = FALSE
    /\ unlinkPending' = unlinkOnError(unlinkPending)
    /\ dlSettled' = settle(dlSettled, "rejected")
    /\ interrupted' = interrupted \cup {"stream"}
    /\ dlpc' = "done"
    /\ UNCHANGED <<totalBytes, downloaded, archiveFile, fileCreated,
                   dlUnlinkFailed, status>>
    /\ DownloaderOnly

\* An fs.unlink issued by an error handler completes: the file is removed,
\* or the call fails and its error goes to the empty callback.
UnlinkCompletes ==
    /\ unlinkPending > 0
    /\ unlinkPending' = unlinkPending - 1
    /\ \E fails \in BOOLEAN :
          IF archiveFile /\ fails
          THEN dlUnlinkFailed' = TRUE /\ UNCHANGED archiveFile
          ELSE archiveFile' = FALSE /\ UNCHANGED dlUnlinkFailed
    /\ UNCHANGED <<dlpc, totalBytes, downloaded, dlSettled, fileStreamOpen,
                   fileCreated, interrupted, status>>
    /\ DownloaderOnly

(***************************************************************************)
(* InitService.initialize.                                                 *)
(***************************************************************************)
\* The status field of a new InitService.
IdleStatus ==
    [stage |-> "idle", progress |-> 0, guideCount |-> 0, gameCount |-> 0,
     error |-> FALSE]

\* A guard that never takes the early return.
alreadyInitialized_never(guideCount) == FALSE

\* The test of the early return: the store holds a guide.
alreadyInitialized(guideCount) == guideCount > 0

\* The call: the counts are read; with a guide in the store the status is
\* set to complete and published, and initialize returns; otherwise the
\* temp directory is made and stage "downloading" is published.
InitCall ==
    /\ ipc = "start"
    /\ hadGuides' = (Cardinality(guides) > 0)
    /\ IF alreadyInitialized(Cardinality(guides))
       THEN /\ status' = [stage |-> "complete", progress |-> 100,
                          guideCount |-> Cardinality(guides),
                          gameCount |-> Cardinality(games), error |-> FALSE]
            /\ ipc' = "done"
       ELSE /\ status' = updateStatus(status, "downloading", 0)
            /\ ipc' = "download"
    /\ UNCHANGED <<priorRun, priorCount, cleanupFailed>>
    /\ UNCHANGED <<fsVars, storeVars, importerVars, importHist, extractorVars,
                   extractHist, downloadVars, downloadHist, ftsVars, schemaVars, callVars, observerVars,
                   serveVars>>

\* A call of downloadArchive that is not awaited.
awaitDownload_none(settled) == TRUE

\* await downloadArchive(...): initialize goes on when the promise has
\* resolved.
awaitDownload(settled) == settled = "resolved"

\* downloadArchive has resolved: stage "extracting" is published at 30.
\* The byte counts are locals of downloadArchive and are gone with it.
InitAfterDownload ==
    /\ ipc = "download"
    /\ awaitDownload(dlSettled)
    /\ status' = updateStatus(status, "extracting", 30)
    /\ ipc' = "extract"
    /\ totalBytes' = 0
    /\ downloaded' = 0
    /\ UNCHANGED <<dlpc, dlSettled, fileStreamOpen, unlinkPending>>
    /\ UNCHANGED <<fsVars, storeVars, importerVars, importHist, extractorVars,
                   extractHist, downloadHist, initHist, ftsVars, schemaVars, callVars, observerVars,
                   serveVars>>

\* extractArchive has returned: the archive is deleted (a throw is logged)
\* and stage "importing" is published at 60.
InitAfterExtract ==
    /\ ipc = "extract"
    /\ expc = "done"
    /\ \E fails \in BOOLEAN :
          /\ archiveFile' = (archiveFile /\ fails)
          /\ cleanupFailed' = (cleanupFailed \/ (archiveFile /\ fails))
    /\ status' = updateStatus(status, "importing", 60)
    /\ ipc' = "import"
    /\ UNCHANGED <<fileInfo, guideDisk, innerDisk, extractedDir, storeVars,
                   importerVars, importHist, extractorVars, extractHist,
                   downloadVars, downloadHist, hadGuides, priorRun,
                   priorCount, ftsVars, schemaVars, callVars, observerVars,
                   serveVars>>

\* fs.rmSync of the extraction directory inside try/catch: the directory
\* and what is under it are removed, or the call throws and all stays.
RemoveExtracted ==
    \E fails \in BOOLEAN :
        IF extractedDir /\ ~fails
        THEN /\ extractedDir' = FALSE
             /\ guideDisk' = {}
             /\ innerDisk' = {}
             /\ UNCHANGED cleanupFailed
        ELSE /\ cleanupFailed' = (cleanupFailed \/ extractedDir)
             /\ UNCHANGED <<extractedDir, guideDisk, innerDisk>>

\* importFromDirectory has returned: the extraction directory is removed
\* and stage "complete" is published with the counts of the store.
InitAfterImport ==
    /\ ipc = "import"
    /\ impc = "done"
    /\ RemoveExtracted
    /\ status' = [updateStatus(status, "complete", 100)
                     EXCEPT !.guideCount = Cardinality(guides),
                            !.gameCount = Cardinality(games)]
    /\ ipc' = "done"
    /\ UNCHANGED <<fileInfo, archiveFile, storeVars, importerVars, importHist,
                   extractorVars, extractHist, downloadVars, downloadHist,
                   hadGuides, priorRun, priorCount, ftsVars, schemaVars,
                   callVars, observerVars, serveVars>>

\* The catch of initialize: a stage has thrown; the extraction directory
\* is removed if it exists, the error status is published and the error is
\* rethrown (main logs it and goes on).  After the import the throw comes
\* from the count queries on the store, which follow the first rmSync.
InitCatch ==
    /\ \/ ipc = "download" /\ dlSettled = "rejected"
       \/ ipc = "extract" /\ expc = "failed"
       \/ ipc = "import" /\ impc = "done"
    /\ RemoveExtracted
    /\ status' = [stage |-> "error", progress |-> 0, guideCount |-> 0,
                  gameCount |-> 0, error |-> TRUE]
    /\ ipc' = "failed"
    /\ UNCHANGED <<fileInfo, archiveFile, storeVars, importerVars, importHist,
                   extractorVars, extractHist, downloadVars, downloadHist,
                   hadGuides, priorRun, priorCount, ftsVars, schemaVars,
                   callVars, observerVars, serveVars>>

\* initialize is called again in the same process after a run has
\* returned or thrown: the object keeps its fields, the store and the disk are as
\* they are.
InitAgain ==
    /\ ipc \in {"done", "failed"}
    /\ priorRun = "none"
    /\ priorRun' = status.stage
    /\ priorCount' = Cardinality(guides)
    /\ ipc' = "start"
    /\ hadGuides' = FALSE
    /\ cleanupFailed' = FALSE
    /\ UNCHANGED <<status, fsVars, storeVars, importerVars,
                   importHist, extractorVars, extractHist, downloadVars,
                   downloadHist, ftsVars, schemaVars, callVars, observerVars, serveVars>>

\* What a restarted process finds in the store: the committed rows.
persistedGuides_lost(gs) == {}

persistedGuides(gs) == gs

\* The process ends (it exits after an uncaught exception, or it is killed
\* during the import or after the run) and is started again: main calls
\* initialize on a new InitService.  The files on disk and the committed
\* rows of the store are what the old process left; an open transaction
\* is gone, and so is everything the old process held in memory.
ProcessRestart ==
    /\ ipc \in {"import", "done", "failed", "crashed"}
    /\ priorRun = "none"
    /\ priorRun' = IF ipc \in {"done", "failed"} THEN status.stage ELSE "killed"
    /\ priorCount' = Cardinality(CommittedGuides)
    /\ guides' = persistedGuides(CommittedGuides)
    /\ games' = CommittedGames
    /\ tx' = NoTx
    /\ status' = IdleStatus
    /\ ipc' = "start"
    /\ isImporting' = FALSE
    /\ gameIdCache' = [e \in ExtIds |-> NoGame]
    /\ stats' = [imported |-> 0, skipped |-> 0, errors |-> 0]
    /\ guideFiles' = <<>>
    /\ batchStart' = 0
    /\ batchPos' = 0
    /\ importedPaths' = <<>>
    /\ impc' = "idle"
    /\ extractorProgress' = IdleProgress
    /\ expc' = "idle"
    /\ entryCount' = 0
    /\ zipRead' = 0
    /\ sevenZipArchives' = <<>>
    /\ dlpc' = "idle"
    /\ totalBytes' = 0
    /\ downloaded' = 0
    /\ dlSettled' = "pending"
    /\ fileStreamOpen' = FALSE
    /\ unlinkPending' = 0
    /\ hadGuides' = FALSE
    /\ cleanupFailed' = FALSE
    /\ unlinked' = {}
    /\ unlinkFailed' = {}
    /\ rolledBack' = {}
    /\ retried' = {}
    /\ faulted' = {}
    /\ attempted' = {}
    /\ failed7z' = {}
    /\ keptArchives' = {}
    /\ entryFailures' = {}
    /\ containerFailed' = FALSE
    /\ fileCreated' = FALSE
    /\ interrupted' = {}
    /\ dlUnlinkFailed' = FALSE
    /\ UNCHANGED <<fsVars, nextId, ftsVars, schemaVars, callVars, observerVars, serveVars>>

(***************************************************************************)
(* GuideModel on the guides table and its two full-text index tables       *)
(* (schema.ts, FULL_TEXT_SEARCH).  A guide row here carries the indexed    *)
(* columns: [id, file, game, title, content, metadata].                    *)
(***************************************************************************)
\* SQL NULL
Null == "NULL"
Titles == {"t1", "t2"}
Contents == {"c1", "c2"}
\* The metadata column: NULL, or the JSON text of a GuideMetadata object
\* without tags, or with one of two tag lists.
MetadataValues == {Null, "{}", "{tags:a}", "{tags:b}"}
\* A key that the data of an update does not carry.
Absent == "absent"

\* json_extract(metadata, '$.tags'): NULL for NULL and for a missing key.
jsonTags(m) ==
    CASE m = "{tags:a}" -> "a"
      [] m = "{tags:b}" -> "b"
      [] OTHER -> Null

COALESCE(x, d) == IF x = Null THEN d ELSE x

\* The truth values of SQL besides NULL.
SqlTrue == "TRUE"
SqlFalse == "FALSE"

\* The SQL operator != : NULL when an operand is NULL.
Neq3(a, b) ==
    IF a = Null \/ b = Null THEN Null
    ELSE IF a # b THEN SqlTrue ELSE SqlFalse

\* The SQL operator OR on TRUE, FALSE and NULL.
Or3(a, b) ==
    IF a = SqlTrue \/ b = SqlTrue THEN SqlTrue
    ELSE IF a = Null \/ b = Null THEN Null
    ELSE SqlFalse

\* The rowid that SQLite gives to a row inserted into table t.
NextRowid(t) ==
    IF t = {} THEN 1
    ELSE 1 + (CHOOSE n \in {e.rowid : e \in t} : \A e \in t : e.rowid <= n)

\* WHEN clause of guides_fts_meta_update: the trigger runs when the clause
\* is TRUE (not when it is FALSE or NULL).
metaUpdateFires(old, new) ==
    Or3(Neq3(old.title, new.title), Neq3(old.metadata, new.metadata)) = SqlTrue

\* WHEN clause of guides_fts_content_update.
contentUpdateFires(old, new) == Neq3(old.content, new.content) = SqlTrue

\* guides_fts_meta_insert
ftsMetaInsert(t, new) ==
    t \cup {[rowid |-> NextRowid(t), guide_id |-> new.id, title |-> new.title,
             tags |-> COALESCE(jsonTags(new.metadata), "")]}

\* guides_fts_content_insert
ftsContentInsert(t, new) ==
    t \cup {[rowid |-> NextRowid(t), guide_id |-> new.id,
             content |-> new.content]}

\* guides_fts_meta_update
ftsMetaUpdate(t, old, new) ==
    IF metaUpdateFires(old, new)
    THEN {IF e.guide_id = new.id
          THEN [e EXCEPT !.title = new.title,
                         !.tags = COALESCE(jsonTags(new.metadata), "")]
          ELSE e : e \in t}
    ELSE t

\* guides_fts_content_update
ftsContentUpdate(t, old, new) ==
    IF contentUpdateFires(old, new)
    THEN {IF e.guide_id = new.id THEN [e EXCEPT !.content = new.content]
          ELSE e : e \in t}
    ELSE t

\* guides_fts_meta_delete
ftsMetaDelete(t, old) == {e \in t : e.guide_id # old.id}

\* A schema without the delete trigger of the content index.
ftsContentDelete_none(t, old) == t

\* guides_fts_content_delete
ftsContentDelete(t, old) == {e \in t : e.guide_id # old.id}

\* The data of GuideModel.update: each indexed column is set or not named.
UpdateData ==
    {d \in [title : Titles \cup {Absent}, content : Contents \cup {Absent},
            metadata : MetadataValues \cup {Absent}] :
        d.title # Absent \/ d.content # Absent \/ d.metadata # Absent}

\* The row that UPDATE guides SET ... makes of row g.
updatedRow(g, d) ==
    [g EXCEPT !.title = IF d.title = Absent THEN @ ELSE d.title,
              !.content = IF d.content = Absent THEN @ ELSE d.content,
              !.metadata = IF d.metadata = Absent THEN @ ELSE d.metadata]

\* The words of the indexed texts: title t1 and content c1 share a word,
\* and so do t2 and c2; a tag is a word of its own.
Words(text) ==
    CASE text \in {"t1", "c1"} -> {"w1"}
      [] text \in {"t2", "c2"} -> {"w2"}
      [] text = "a" -> {"a"}
      [] text = "b" -> {"b"}
      [] OTHER -> {}

\* The query strings of a search: one word each.
Queries == {"w1", "w2", "a"}

\* guides_fts_meta MATCH q: the rows with the word in title or tags.
metaMatches(q) == {e \in ftsMeta : q \in Words(e.title) \cup Words(e.tags)}

\* guides_fts_content MATCH q
contentMatches(q) == {e \in ftsContent : q \in Words(e.content)}

\* The orders in which ORDER BY rank can return the rows of S: the rank is
\* the bm25 score, which depends on the lengths and statistics of the
\* indexed texts.
RankOrders(S) ==
    {s \in [1..Cardinality(S) -> S] : \A i, j \in DOMAIN s : s[i] = s[j] => i = j}

\* LIMIT n on a row sequence.
sqlLimit(s, n) == SubSeq(s, 1, Min(n, Len(s)))

\* results.map(r => r.guide_id)
guideIds(s) == [i \in DOMAIN s |-> s[i].guide_id]

\* A search that hands every content match on.
contentOnly_all(ids, metaIdSet) == ids

RECURSIVE contentOnly(_, _)
\* .filter(id => !metaIdSet.has(id))
contentOnly(ids, metaIdSet) ==
    IF ids = <<>> THEN <<>>
    ELSE IF Head(ids) \in metaIdSet THEN contentOnly(Tail(ids), metaIdSet)
    ELSE <<Head(ids)>> \o contentOnly(Tail(ids), metaIdSet)

\* fetchGuides(ids): SELECT * FROM guides WHERE id IN (...) without ORDER
\* BY; SQLite looks the ids up through the primary-key index in ascending
\* order of id, and a row is returned once.  (The ids of the rows.)
fetchGuides(ids) ==
    IF ids = <<>> THEN <<>>
    ELSE SortedSeq({g.id : g \in {r \in guides : r.id \in SeqToSet(ids)}})

\* No search has returned.
NoSearch ==
    [query |-> "none", limit |-> 0, metaIds |-> <<>>, contentIds |-> <<>>,
     guides |-> <<>>, content |-> <<>>]

\* What no GuideModel call touches.
GuideModelOnly ==
    UNCHANGED <<fsVars, games, tx, importerVars, importHist, extractorVars,
                extractHist, downloadVars, downloadHist, initVars, initHist,
                observerVars, serveVars, schemaVars, callVars>>

\* GuideModel.create: INSERT INTO guides, then the two insert triggers.
GuideCreate ==
    /\ nextId <= MaxGuides
    /\ \E t \in Titles, c \in Contents, m \in MetadataValues :
          LET new == [id |-> nextId, file |-> 1, game |-> NoGame, title |-> t,
                      content |-> c, metadata |-> m]
          IN /\ guides' = guides \cup {new}
             /\ ftsMeta' = ftsMetaInsert(ftsMeta, new)
             /\ ftsContent' = ftsContentInsert(ftsContent, new)
    /\ nextId' = nextId + 1
    /\ lastSearch' = NoSearch
    /\ GuideModelOnly

\* The UPDATE statement of GuideModel.update on row g with data d, then
\* the two update triggers.
UpdateGuide(g, d) ==
    LET new == updatedRow(g, d)
    IN /\ guides' = (guides \ {g}) \cup {new}
       /\ ftsMeta' = ftsMetaUpdate(ftsMeta, g, new)
       /\ ftsContent' = ftsContentUpdate(ftsContent, g, new)

\* Data that names a column with the value the row has: the UPDATE and the
\* triggers leave row and index as data without that column does.
RepeatsValue(g, d) ==
    d.title = g.title \/ d.content = g.content \/ d.metadata = g.metadata

\* GuideModel.update(id, data); data that repeats a value of the row is
\* covered by the data without that column.
GuideUpdate ==
    /\ \E g \in guides, d \in UpdateData :
          ~RepeatsValue(g, d) /\ UpdateGuide(g, d)
    /\ UNCHANGED nextId
    /\ lastSearch' = NoSearch
    /\ GuideModelOnly

\* GuideModel.setMetadata(id, metadata): update with the JSON text.
GuideSetMetadata ==
    /\ \E g \in guides, m \in MetadataValues \ {Null} :
          UpdateGuide(g, [title |-> Absent, content |-> Absent, metadata |-> m])
    /\ UNCHANGED nextId
    /\ lastSearch' = NoSearch
    /\ GuideModelOnly

\* GuideModel.delete(id): DELETE FROM guides, then the two delete triggers.
GuideDelete ==
    /\ \E g \in guides :
          /\ guides' = guides \ {g}
          /\ ftsMeta' = ftsMetaDelete(ftsMeta, g)
          /\ ftsContent' = ftsContentDelete(ftsContent, g)
    /\ UNCHANGED nextId
    /\ lastSearch' = NoSearch
    /\ GuideModelOnly

\* GuideModel.search(query, limit) with a limit as the routes pass it
\* (at least 1).
GuideSearch ==
    /\ \E q \in Queries, limit \in 1..MaxLimit :
       \E metaRanked \in RankOrders(metaMatches(q)),
          contentRanked \in RankOrders(contentMatches(q)) :
          LET metaIds == guideIds(sqlLimit(metaRanked, limit))
              contentIds == guideIds(sqlLimit(contentRanked, limit))
              contentOnlyIds == contentOnly(contentIds, SeqToSet(metaIds))
          IN lastSearch' = [query |-> q, limit |-> limit,
                            metaIds |-> metaIds, contentIds |-> contentIds,
                            guides |-> fetchGuides(metaIds),
                            content |-> fetchGuides(contentOnlyIds)]
    /\ UNCHANGED <<guides, nextId, ftsMeta, ftsContent>>
    /\ GuideModelOnly

(***************************************************************************)
(* The schema migrations (database/migrations.ts, database/schema.ts).     *)
(* runMigrations is followed migration by migration; the database file is  *)
(* reduced to what the migrations test and change: the rows of             *)
(* schema_version and whether guides has the column ai_analyzed_at.        *)
(***************************************************************************)
SCHEMA_VERSION == 7
\* How often the application is started on one database file.
MaxStartups == 3

\* migrations: all migrations in order.
migrations == [v \in 1..SCHEMA_VERSION |-> v]

RECURSIVE MaxOf(_)
MaxOf(S) == IF S = {} THEN 0
            ELSE LET x == CHOOSE y \in S : TRUE
                 IN Max(x, MaxOf(S \ {x}))

\* getCurrentVersion: the highest recorded version, 0 without the table.
getCurrentVersion == MaxOf(schemaVersions)

\* migrations.filter(m => m.version > currentVersion)
pendingAfter(currentVersion) ==
    SelectSeq(migrations, LAMBDA v : v > currentVersion)

\* CREATE TABLE IF NOT EXISTS guides (..., ai_analyzed_at INTEGER, ...):
\* a table that exists keeps its columns.
createGuidesTable(t) == IF t = "absent" THEN "current" ELSE t

\* ALTER TABLE guides ADD COLUMN ai_analyzed_at: SQLite refuses a column
\* name the table has already ("duplicate column name"), and a missing table.
canAddColumn(t) == t = "legacy"

\* No runMigrations call so far.
NoMigration ==
    /\ schemaVersions = {}
    /\ guidesTable = "absent"
    /\ pendingMigrations = <<>>
    /\ mpc = "idle"
    /\ applied = <<>>
    /\ startups = 0
    /\ startedEmpty = TRUE
    /\ interruptedAt = {}

\* What runMigrations leaves alone.
MigrationsOnly ==
    UNCHANGED <<fsVars, storeVars, importerVars, importHist, extractorVars,
                extractHist, downloadVars, downloadHist, initVars, initHist,
                lastSearch, observerVars, serveVars, callVars>>

\* DatabaseService.initialize -> applySchema -> runMigrations, up to the
\* first migration: up to date, newer than the application, or pending.
MigrateCall ==
    /\ mpc \in {"idle", "ok", "threw"}
    /\ startups < MaxStartups
    /\ startups' = startups + 1
    /\ applied' = <<>>
    /\ LET currentVersion == getCurrentVersion
       IN IF currentVersion = SCHEMA_VERSION
          THEN mpc' = "ok" /\ pendingMigrations' = <<>>
          ELSE IF currentVersion > SCHEMA_VERSION
          THEN mpc' = "threw" /\ pendingMigrations' = <<>>
          ELSE /\ mpc' = "running"
               /\ pendingMigrations' = pendingAfter(currentVersion)
    /\ UNCHANGED <<schemaVersions, guidesTable, startedEmpty, interruptedAt,
                   ftsMeta, ftsContent>>
    /\ MigrationsOnly

\* INSERT INTO guides_fts_meta ... SELECT ... FROM guides of migration 6:
\* one index row for every guide row, added to the rows the table has.
RECURSIVE populateMeta(_, _)
populateMeta(t, gs) ==
    IF gs = {} THEN t
    ELSE LET g == CHOOSE x \in gs : \A y \in gs : x.id <= y.id
         IN populateMeta(ftsMetaInsert(t, g), gs \ {g})

\* INSERT INTO guides_fts_content ... SELECT id, content FROM guides
RECURSIVE populateContent(_, _)
populateContent(t, gs) ==
    IF gs = {} THEN t
    ELSE LET g == CHOOSE x \in gs : \A y \in gs : x.id <= y.id
         IN populateContent(ftsContentInsert(t, g), gs \ {g})

\* migration.up(db) of the next pending migration.  v1 creates the tables
\* and records 1; v2 to v5 leave the guides columns and the split index
\* alone and record their version; v6 creates the split index tables if
\* they do not exist and fills them from guides; v7 begins with the ALTER
\* TABLE, which adds the column or throws before anything is recorded, and
\* runMigrations rethrows.
MigrateUp ==
    /\ mpc = "running"
    /\ pendingMigrations # <<>>
    /\ LET v == Head(pendingMigrations)
       IN IF v = 7
          THEN IF canAddColumn(guidesTable)
               THEN /\ guidesTable' = "current"
                    /\ mpc' = "altered"
                    /\ UNCHANGED <<schemaVersions, pendingMigrations, applied>>
               ELSE /\ mpc' = "threw"
                    /\ UNCHANGED <<schemaVersions, guidesTable,
                                   pendingMigrations, applied>>
          ELSE IF v = 6
          THEN /\ mpc' = "populated"
               /\ UNCHANGED <<schemaVersions, guidesTable, pendingMigrations,
                              applied>>
          ELSE /\ guidesTable' = IF v = 1 THEN createGuidesTable(guidesTable)
                                 ELSE guidesTable
               /\ schemaVersions' = schemaVersions \cup {v}
               /\ applied' = Append(applied, v)
               /\ pendingMigrations' = Tail(pendingMigrations)
               /\ UNCHANGED mpc
    /\ IF Head(pendingMigrations) = 6
       THEN /\ ftsMeta' = populateMeta(ftsMeta, guides)
            /\ ftsContent' = populateContent(ftsContent, guides)
       ELSE UNCHANGED <<ftsMeta, ftsContent>>
    /\ UNCHANGED <<startups, startedEmpty, interruptedAt>>
    /\ MigrationsOnly

\* The rest of v6 after the two INSERT ... SELECT (the triggers are created
\* and version 6 is recorded) and of v7 after the ALTER TABLE (the index is
\* created and version 7 is recorded); no transaction spans a migration.
MigrateRecord ==
    /\ mpc \in {"altered", "populated"}
    /\ schemaVersions' = schemaVersions \cup {Head(pendingMigrations)}
    /\ applied' = Append(applied, Head(pendingMigrations))
    /\ pendingMigrations' = Tail(pendingMigrations)
    /\ mpc' = "running"
    /\ UNCHANGED <<guidesTable, startups, startedEmpty, interruptedAt,
                   ftsMeta, ftsContent>>
    /\ MigrationsOnly

\* The forEach is over: runMigrations returns.
MigrateDone ==
    /\ mpc = "running"
    /\ pendingMigrations = <<>>
    /\ mpc' = "ok"
    /\ UNCHANGED <<schemaVersions, guidesTable, pendingMigrations, applied,
                   startups, startedEmpty, interruptedAt, ftsMeta, ftsContent>>
    /\ MigrationsOnly

\* The process stops inside a migration, between two of its statements
\* (each db.exec commits on its own): what the statements before did stays
\* in the file, the version is not recorded.
MigrateStop ==
    /\ mpc \in {"altered", "populated"}
    /\ interruptedAt' = interruptedAt \cup {Head(pendingMigrations)}
    /\ pendingMigrations' = <<>>
    /\ mpc' = "idle"
    /\ UNCHANGED <<schemaVersions, guidesTable, applied, startups,
                   startedEmpty, ftsMeta, ftsContent>>
    /\ MigrationsOnly

(***************************************************************************)
(* GameModel.updateCompletionPercentage (models/Game.ts).  Percentages are *)
(* numbers; the code compares them and never rounds, so whole numbers      *)
(* below, at, between and above the two ends stand for them.               *)
(***************************************************************************)
NumGames == 2
GameIds == 1..NumGames
Percentages == {-50, -1, 0, 1, 50, 99, 100, 101, 150}
NoRow == [completion_percentage |-> -1, status |-> "none"]
NoUpdate == [id |-> 0, percentage |-> 0, changed |-> FALSE]

\* An update that stores the percentage as it is given.
clampedPercentage_none(percentage) == percentage

\* Math.max(0, Math.min(100, percentage))
clampedPercentage(percentage) == Max(0, Min(100, percentage))

\* clampedPercentage === 0 ? 'not_started' : === 100 ? 'completed' : ...
statusOf(clamped) ==
    IF clamped = 0 THEN "not_started"
    ELSE IF clamped = 100 THEN "completed"
    ELSE "in_progress"

\* What updateCompletionPercentage leaves alone.
GameModelOnly ==
    UNCHANGED <<fsVars, storeVars, importerVars, importHist, extractorVars,
                extractHist, downloadVars, downloadHist, initVars, initHist,
                ftsVars, observerVars, serveVars, schemaVars, pathCall, parsed,
                readyResponse, svcVars>>

\* updateCompletionPercentage(id, percentage): UPDATE games SET
\* completion_percentage = ?, status = ?, updated_at = ? WHERE id = ?;
\* the result is changes > 0.
UpdateCompletionPercentage ==
    \E id \in GameIds, percentage \in Percentages :
        LET clamped == clampedPercentage(percentage)
            found == gameRow[id] # NoRow
        IN /\ gameRow' = IF found
                         THEN [gameRow EXCEPT ![id] =
                                  [completion_percentage |-> clamped,
                                   status |-> statusOf(clamped)]]
                         ELSE gameRow
           /\ lastUpdate' = [id |-> id, percentage |-> percentage,
                             changed |-> found]
           /\ GameModelOnly

\* updateStatus(id, status): UPDATE games SET status = ? WHERE id = ?.
UpdateStatus ==
    \E id \in GameIds, st \in {"not_started", "in_progress", "completed"} :
        /\ gameRow[id] # NoRow
        /\ gameRow' = [gameRow EXCEPT ![id].status = st]
        /\ lastUpdate' = NoUpdate
        /\ GameModelOnly

(***************************************************************************)
(* Game resolution from the path of a guide file (GuideParser              *)
(* .extractGameInfoFromPath, .extractGameInfoFromFilename, GuideImporter   *)
(* .importSingleGuideSync).  A path is the root, up to MaxDepth folders    *)
(* and the file name; names are reduced to the kinds the code tells apart. *)
(***************************************************************************)
MaxDepth == 3
\* Folder names: the faqs folder in two spellings, a platform the map
\* knows, one it does not know, an id-prefixed game folder, a plain one.
FolderNames == {"faqs", "FAQs", "nes", "misc", "12-zelda", "zelda"}
FileNames == {"34-zelda.txt", "guide.txt"}
NoId == "null"
NoPlatform == "null"
Root == ""

\* name.match(/^(\d+)-(.+)$/): the digits before the first dash.
numericPrefix(name) ==
    IF name = "12-zelda" THEN "12"
    ELSE IF name = "34-zelda.txt" THEN "34"
    ELSE NoId

\* p.toLowerCase() === 'faqs'
isFaqs(name) == name \in {"faqs", "FAQs"}

\* normalizePlatform: the platform map, null for a name it does not hold.
normalizePlatform(dirName) == IF dirName = "nes" THEN "NES" ELSE NoPlatform

\* filePath.split(path.sep) of an absolute path; positions count from 0.
partsOf(folders, file) == <<Root>> \o folders \o <<file>>
part(parts, i) == parts[i + 1]

\* parts.findIndex(p => p.toLowerCase() === 'faqs'): the first match, or -1.
findIndexFaqs(parts) ==
    IF \E i \in 0..(Len(parts) - 1) : isFaqs(part(parts, i))
    THEN CHOOSE i \in 0..(Len(parts) - 1) :
            /\ isFaqs(part(parts, i))
            /\ \A j \in 0..(i - 1) : ~isFaqs(part(parts, j))
    ELSE -1

\* A resolution that never looks at the file name.
extractGameInfoFromFilename_none(file) == NoId

\* extractGameInfoFromFilename: the numeric prefix of the file name.
extractGameInfoFromFilename(file) == numericPrefix(file)

\* extractGameInfoFromPath(filePath): { gameId, platform }.
extractGameInfoFromPath(folders, file) ==
    LET parts == partsOf(folders, file)
        faqsIndex == findIndexFaqs(parts)
    IN IF faqsIndex > 0 /\ numericPrefix(part(parts, faqsIndex - 1)) # NoId
       THEN [gameId |-> numericPrefix(part(parts, faqsIndex - 1)),
             platform |-> IF faqsIndex >= 2
                          THEN normalizePlatform(part(parts, faqsIndex - 2))
                          ELSE NoPlatform]
       ELSE [gameId |-> extractGameInfoFromFilename(file),
             platform |-> NoPlatform]

NoPathCall == [folders |-> <<>>, file |-> "", known |-> FALSE, done |-> FALSE,
               gameId |-> NoId, platform |-> NoPlatform, linked |-> FALSE,
               gameCreated |-> FALSE]

Paths == UNION {[1..n -> FolderNames] : n \in 0..MaxDepth}

\* importSingleGuideSync(filePath) on the path that waits (known: the cache
\* or the store holds a game of the id): with a game id the guide is linked
\* to the game of that external id, which is created unless it is known;
\* without one the guide is created with game_id undefined.
ImportSingleGuide ==
    /\ pathCall.file # ""
    /\ ~pathCall.done
    /\ LET info == extractGameInfoFromPath(pathCall.folders, pathCall.file)
       IN pathCall' = [pathCall EXCEPT
                         !.done = TRUE,
                         !.gameId = info.gameId,
                         !.platform = info.platform,
                         !.linked = info.gameId # NoId,
                         !.gameCreated = info.gameId # NoId /\ ~pathCall.known]
    /\ UNCHANGED <<fsVars, storeVars, importerVars, importHist,
                   extractorVars, extractHist, downloadVars,
                   downloadHist, initVars, initHist, ftsVars,
                   observerVars, serveVars, schemaVars, gameRow,
                   lastUpdate, parsed, readyResponse, svcVars>>

(***************************************************************************)
(* GuideParser.parseGuide on the text of a file.  A text is a sequence of  *)
(* at most MaxChars pieces: a blank, a line break, a letter, an opening    *)
(* tag and a closing </p>.  Titles are reduced to where they come from.    *)
(***************************************************************************)
MaxChars == 2
Pieces == {" ", "\n", "a", "<b>", "</p>"}
Texts == UNION {[1..n -> Pieces] : n \in 0..MaxChars}
Formats == {"txt", "html", "md", "pdf"}
isSpace(c) == c \in {" ", "\n"}

\* String.prototype.trim
RECURSIVE trimStart(_)
trimStart(s) == IF s # <<>> /\ isSpace(Head(s)) THEN trimStart(Tail(s)) ELSE s
RECURSIVE trimEnd(_)
trimEnd(s) ==
    IF s # <<>> /\ isSpace(s[Len(s)])
    THEN trimEnd(SubSeq(s, 1, Len(s) - 1)) ELSE s
trim(s) == trimEnd(trimStart(s))

\* The tag replacements of parseHtmlGuide: </p> becomes two line breaks,
\* every tag that is left is removed.
RECURSIVE stripTags(_)
stripTags(s) ==
    IF s = <<>> THEN <<>>
    ELSE (IF Head(s) = "</p>" THEN <<"\n", "\n">>
          ELSE IF Head(s) = "<b>" THEN <<>>
          ELSE <<Head(s)>>) \o stripTags(Tail(s))

\* content.split('\n').map(line => line.trim()).join('\n'): a blank stays
\* when its line has a letter before it and a letter after it.
trimLines(s) ==
    LET lineStart(i) ==
            IF \E j \in 1..(i - 1) : s[j] = "\n"
            THEN 1 + CHOOSE j \in 1..(i - 1) :
                        s[j] = "\n" /\ \A k \in (j + 1)..(i - 1) : s[k] # "\n"
            ELSE 1
        lineEnd(i) ==
            IF \E j \in (i + 1)..Len(s) : s[j] = "\n"
            THEN (CHOOSE j \in (i + 1)..Len(s) :
                        s[j] = "\n" /\ \A k \in (i + 1)..(j - 1) : s[k] # "\n") - 1
            ELSE Len(s)
        stays(i) ==
            s[i] # " " \/ (/\ \E j \in lineStart(i)..(i - 1) : s[j] # " "
                           /\ \E j \in (i + 1)..lineEnd(i) : s[j] # " ")
        keep[i \in 0..Len(s)] ==
            IF i = 0 THEN <<>>
            ELSE IF stays(i) THEN Append(keep[i - 1], s[i]) ELSE keep[i - 1]
    IN keep[Len(s)]

\* content.replace(/\n{3,}/g, '\n\n')
RECURSIVE collapseBreaks(_)
collapseBreaks(s) ==
    IF Len(s) >= 3 /\ s[1] = "\n" /\ s[2] = "\n" /\ s[3] = "\n"
    THEN collapseBreaks(Tail(s))
    ELSE IF s = <<>> THEN <<>>
    ELSE <<Head(s)>> \o collapseBreaks(Tail(s))

EmptyGuideContent == <<"[This guide appears to be empty or contains no readable content]">>
PdfContent == <<"[PDF content - PDF parsing not yet implemented]">>

\* extractTitleFromContent(content) || extractTitleFromFilename(filePath)
titleOf(content) ==
    IF \E i \in 1..Len(content) : content[i] = "a" THEN "a" ELSE "Guide"

parseTxtGuide(content) ==
    IF Len(trim(content)) = 0
    THEN [title |-> "Guide (Empty Guide)", content |-> EmptyGuideContent,
          format |-> "txt"]
    ELSE [title |-> titleOf(content), content |-> content, format |-> "txt"]

parseHtmlGuide(htmlContent) ==
    [title |-> titleOf(htmlContent),
     content |-> collapseBreaks(trimLines(stripTags(htmlContent))),
     format |-> "html"]

parseMarkdownGuide(content) ==
    [title |-> titleOf(content), content |-> content, format |-> "md"]

parsePdfGuide ==
    [title |-> "Guide", content |-> PdfContent, format |-> "pdf"]

\* parseGuide(filePath) on a file of format fmt holding text.
parseGuide(fmt, text) ==
    IF fmt = "txt" THEN parseTxtGuide(text)
    ELSE IF fmt = "html" THEN parseHtmlGuide(text)
    ELSE IF fmt = "md" THEN parseMarkdownGuide(text)
    ELSE parsePdfGuide

NoParse == [file |-> <<>>, detected |-> "none", title |-> "", content |-> <<>>,
            format |-> "none"]

ParseGuide ==
    \E fmt \in Formats, text \in Texts :
        LET r == parseGuide(fmt, text)
        IN /\ parsed' = [file |-> text, detected |-> fmt, title |-> r.title,
                         content |-> r.content, format |-> r.format]
           /\ UNCHANGED <<fsVars, storeVars, importerVars, importHist,
                          extractorVars, extractHist, downloadVars,
                          downloadHist, initVars, initHist, ftsVars,
                          observerVars, serveVars, schemaVars, gameRow,
                          lastUpdate, pathCall, readyResponse,
                          svcVars>>

(***************************************************************************)
(* GET /api/health/ready (routes/health.ts).  The handler reads the status *)
(* of the InitService and answers in the same turn of the event loop.      *)
(***************************************************************************)
NoResponse == [code |-> 0]

\* A service that counts the import stage as complete.
isComplete_processing(st) == st.stage \in {"complete", "importing"}

\* InitService.isComplete, InitService.hasError
isComplete(st) == st.stage = "complete"
hasError(st) == st.stage = "error"

\* The body and the status code the handler sends for a status.
readyAnswer(st) ==
    IF isComplete(st) THEN [code |-> 200, ready |-> TRUE]
    ELSE IF hasError(st)
    THEN [code |-> 503, ready |-> FALSE, error |-> st.error]
    ELSE [code |-> 503, ready |-> FALSE, stage |-> st.stage,
          progress |-> st.progress]

HealthOnly ==
    UNCHANGED <<fsVars, storeVars, importerVars, importHist, extractorVars,
                extractHist, downloadVars, downloadHist, initVars, initHist,
                ftsVars, observerVars, serveVars, schemaVars, gameRow,
                lastUpdate, pathCall, parsed, svcVars>>

\* router.get('/ready', ...)
HealthReady ==
    /\ readyResponse = NoResponse
    /\ readyResponse' = readyAnswer(status)
    /\ HealthOnly

\* res.json has handed the response over: the handler returns.
ResponseSent ==
    /\ readyResponse # NoResponse
    /\ readyResponse' = NoResponse
    /\ HealthOnly

(***************************************************************************)
(* GameModel.delete (models/Game.ts) on a store with foreign keys enabled  *)
(* (DatabaseService.initialize): guides.game_id REFERENCES games(id) ON    *)
(* DELETE SET NULL.  The update that the action makes of a guide row runs  *)
(* the update triggers of guides like any other update.                    *)
(***************************************************************************)
NoDelete == [id |-> NoGame, found |-> FALSE, dependents |-> {}]

\* A schema that declares ON DELETE CASCADE.
onDeleteGame_cascade(gs, id) == {g \in gs : g.game # id}

\* ON DELETE SET NULL: the guide rows after the game row id is deleted.
onDeleteGame(gs, id) ==
    {IF g.game = id THEN [g EXCEPT !.game = NoGame] ELSE g : g \in gs}

\* The row of guide g in the rows gs (guide ids are unique).
rowOf(gs, g) == CHOOSE r \in gs : r.id = g.id

\* The index tables after the update triggers have run for each row of
\* olds whose new row is in news.
RECURSIVE metaAfterUpdates(_, _, _)
metaAfterUpdates(t, olds, news) ==
    IF olds = {} THEN t
    ELSE LET g == CHOOSE x \in olds : TRUE
         IN metaAfterUpdates(
                IF \E r \in news : r.id = g.id
                THEN ftsMetaUpdate(t, g, rowOf(news, g)) ELSE t,
                olds \ {g}, news)

RECURSIVE contentAfterUpdates(_, _, _)
contentAfterUpdates(t, olds, news) ==
    IF olds = {} THEN t
    ELSE LET g == CHOOSE x \in olds : TRUE
         IN contentAfterUpdates(
                IF \E r \in news : r.id = g.id
                THEN ftsContentUpdate(t, g, rowOf(news, g)) ELSE t,
                olds \ {g}, news)

\* GuideModel.create with the game_id of a game row, or without one.  One
\* title and one content stand for all (the delete of a game reads
\* neither); the metadata is NULL or a JSON text.
GuideCreateLinked ==
    /\ nextId <= MaxGuides
    /\ \E m \in {Null, "{tags:a}"}, gm \in {g.id : g \in games} \cup {NoGame} :
          LET new == [id |-> nextId, file |-> 1, game |-> gm, title |-> "t1",
                      content |-> "c1", metadata |-> m]
          IN /\ guides' = guides \cup {new}
             /\ ftsMeta' = ftsMetaInsert(ftsMeta, new)
             /\ ftsContent' = ftsContentInsert(ftsContent, new)
    /\ nextId' = nextId + 1
    /\ lastSearch' = NoSearch
    /\ GuideModelOnly

\* GameModel.delete(id): DELETE FROM games WHERE id = ?, the foreign-key
\* action on guides, and the update triggers for the rows it changed.
GameDelete ==
    \E id \in GameIds :
        LET found == \E g \in games : g.id = id
            dependents == {g \in guides : g.game = id}
            after == IF found THEN onDeleteGame(guides, id) ELSE guides
        IN /\ games' = {g \in games : g.id # id}
           /\ guides' = after
           /\ ftsMeta' = metaAfterUpdates(ftsMeta, dependents, after)
           /\ ftsContent' = contentAfterUpdates(ftsContent, dependents, after)
           /\ lastDelete' = [id |-> id, found |-> found,
                             dependents |-> dependents]
           /\ UNCHANGED <<fsVars, tx, nextId, importerVars, importHist,
                          extractorVars, extractHist, downloadVars,
                          downloadHist, initVars, initHist, lastSearch,
                          observerVars, serveVars, schemaVars, gameRow,
                          lastUpdate, pathCall, parsed, readyResponse,
                          lastBulk, importLog, limiterVars,
                          batchVars>>

(***************************************************************************)
(* GuideModel.bulkCreate (models/Guide.ts): create for each guide of the   *)
(* list inside DatabaseService.transaction (better-sqlite3: BEGIN, the     *)
(* function, COMMIT; ROLLBACK and rethrow when the function throws).       *)
(***************************************************************************)
MaxList == 2
\* The guides of a list: the metadata is NULL or a JSON text, and the
\* insert is accepted ("ok") or rejected by a constraint ("rejected", as
\* for a file_path of null).
BulkItems == [metadata : {Null, "{tags:a}"}, kind : {"ok", "rejected"}]
BulkLists == UNION {[1..n -> BulkItems] : n \in 1..MaxList}
NoBulk == [called |-> FALSE, list |-> <<>>, threw |-> FALSE,
           before |-> [guides |-> {}, ftsMeta |-> {}, ftsContent |-> {}]]

\* The loop of bulkCreate on the tables st from item i on: the creates in
\* list order up to the first that is rejected.
RECURSIVE createAll(_, _, _)
createAll(st, list, i) ==
    IF i > Len(list) THEN st
    ELSE IF list[i].kind = "rejected" THEN [st EXCEPT !.threw = TRUE]
    ELSE LET new == [id |-> st.nextId, file |-> 1, game |-> NoGame,
                     title |-> "t1", content |-> "c1",
                     metadata |-> list[i].metadata]
         IN createAll([st EXCEPT !.guides = @ \cup {new},
                                 !.ftsMeta = ftsMetaInsert(@, new),
                                 !.ftsContent = ftsContentInsert(@, new),
                                 !.nextId = @ + 1],
                      list, i + 1)

\* A transaction wrapper that does not roll back.
transaction_none(before, after) == after

\* db.transaction(fn)(): the tables after fn, or the tables before it when
\* fn threw.
transaction(before, after) == IF after.threw THEN before ELSE after

BulkCreate ==
    \E list \in BulkLists :
        LET before == [guides |-> guides, ftsMeta |-> ftsMeta,
                       ftsContent |-> ftsContent, nextId |-> nextId,
                       threw |-> FALSE]
            after == createAll(before, list, 1)
            end == transaction(before, after)
        IN /\ nextId + Len(list) - 1 <= MaxGuides
           /\ guides' = end.guides
           /\ ftsMeta' = end.ftsMeta
           /\ ftsContent' = end.ftsContent
           /\ nextId' = end.nextId
           /\ lastSearch' = NoSearch
           /\ lastBulk' = [called |-> TRUE, list |-> list, threw |-> after.threw,
                           before |-> [guides |-> guides, ftsMeta |-> ftsMeta,
                                       ftsContent |-> ftsContent]]
           /\ UNCHANGED <<fsVars, games, tx, importerVars, importHist,
                          extractorVars, extractHist, downloadVars,
                          downloadHist, initVars, initHist, observerVars,
                          serveVars, schemaVars, gameRow, lastUpdate, pathCall,
                          parsed, readyResponse, lastDelete, importLog,
                          limiterVars, batchVars>>

(***************************************************************************)
(* importFromDirectory called again: while a run is in progress, after a   *)
(* run has returned, and after a run has thrown (ArchiveExtractor.ts).     *)
(***************************************************************************)
MaxRuns == 2
MaxRejected == 1

\* A guard placed inside the try: the finally of the rejected call clears
\* the flag of the running import.
flagAfterRejected_cleared(flag) == FALSE

\* isImporting after a rejected call: the guard throws before the try, so
\* the finally does not run for it.
flagAfterRejected(flag) == flag

\* A call while isImporting is set: 'Import already in progress' is thrown.
\* The running import is at its await between two batches, the only point
\* where other code of the process runs.
ImportRejected ==
    /\ impc = "yield"
    /\ isImporting
    /\ importLog.rejected < MaxRejected
    /\ isImporting' = flagAfterRejected(isImporting)
    /\ importLog' = [importLog EXCEPT !.rejected = @ + 1]
    /\ UNCHANGED <<fsVars, storeVars, gameIdCache, stats, guideFiles,
                   batchStart, batchPos, importedPaths, impc, importHist,
                   extractorVars, extractHist, downloadVars, downloadHist,
                   initVars, initHist, ftsVars, schemaVars, gameRow,
                   lastUpdate, pathCall, parsed, readyResponse, lastDelete,
                   lastBulk, limiterVars, batchVars, observerVars,
                   serveVars>>

\* The onProgress callback of a loop iteration throws: the exception
\* leaves importFromDirectory through finally, which clears the flag.
ImportThrows ==
    /\ impc = "batch"
    /\ isImporting' = FALSE
    /\ impc' = "threw"
    /\ UNCHANGED <<fsVars, storeVars, gameIdCache, stats, guideFiles,
                   batchStart, batchPos, importedPaths, importHist, status,
                   serveVars>>
    /\ ImporterOnly

\* The caller has the result (or the exception) of a run: the importer
\* object is ready for the next call; its cache is kept.
ImportReturn ==
    /\ impc \in {"done", "threw"}
    /\ importLog.runs + 1 < MaxRuns
    /\ impc' = "idle"
    /\ importLog' = [importLog EXCEPT !.runs = @ + 1, !.rejected = 0]
    /\ UNCHANGED <<fsVars, storeVars, isImporting, gameIdCache, stats,
                   guideFiles, batchStart, batchPos, importedPaths, importHist,
                   extractorVars, extractHist, downloadVars, downloadHist,
                   initVars, initHist, ftsVars, schemaVars, gameRow,
                   lastUpdate, pathCall, parsed, readyResponse, lastDelete,
                   lastBulk, limiterVars, batchVars, observerVars,
                   serveVars>>

(***************************************************************************)
(* createRateLimiter (middleware/rateLimit.ts), mounted before the admin   *)
(* routes with windowMs 60000 and max 100; here with a short window and a  *)
(* small max.                                                              *)
(***************************************************************************)
NumIps == 2
windowMs == 2
max == 2
\* The clock runs from 0 to MaxTime.
MaxTime == 4
\* How many requests beyond max one window takes.
MaxOver == 1
Ips == 1..NumIps
NoEntry == [count |-> 0, resetAt |-> 0]

\* No request of the client so far: no window has begun.
NoWindow == [n |-> 0, start |-> 0, forwarded |-> 0, rejected |-> 0]

\* The windows of a client as its requests define them: a window of
\* windowMs begins with the first request and, after it has ended, with
\* the next request.  The log counts the answers in the last window.
logRequest(w, t, code) ==
    LET cur == IF w.n = 0 \/ t >= w.start + windowMs
               THEN [n |-> w.n + 1, start |-> t, forwarded |-> 0,
                     rejected |-> 0]
               ELSE w
    IN IF code = 200 THEN [cur EXCEPT !.forwarded = @ + 1]
       ELSE [cur EXCEPT !.rejected = @ + 1]

NoLimiter ==
    /\ rlStore = [ip \in Ips |-> NoEntry]
    /\ now = 0
    /\ windowLog = [ip \in Ips |-> NoWindow]
    /\ lastRequest = [ip |-> 0, code |-> 0]

LimiterOnly ==
    UNCHANGED <<fsVars, storeVars, importerVars, importHist, extractorVars,
                extractHist, downloadVars, downloadHist, initVars, initHist,
                ftsVars, schemaVars, observerVars, serveVars, gameRow,
                lastUpdate, pathCall, parsed, readyResponse, lastDelete,
                lastBulk, importLog, batchVars>>

\* !entry || now >= entry.resetAt
windowOver(entry, t) == entry = NoEntry \/ t >= entry.resetAt

\* A limit that lets one request more through.
exceeds_late(count) == count > max + 1

\* entry.count > max
exceeds(count) == count > max

\* rateLimit(req, res, next) for a request of ip at the time now.
RateLimit ==
    \E ip \in Ips :
        LET old == rlStore[ip]
            fresh == windowOver(old, now)
            entry == IF fresh THEN [count |-> 1, resetAt |-> now + windowMs]
                     ELSE [old EXCEPT !.count = @ + 1]
            code == IF exceeds(entry.count) THEN 429 ELSE 200
        IN /\ entry.count <= max + MaxOver
           /\ rlStore' = [rlStore EXCEPT ![ip] = entry]
           /\ windowLog' = [windowLog EXCEPT
                                ![ip] = logRequest(@, now, code)]
           /\ lastRequest' = [ip |-> ip, code |-> code]
           /\ UNCHANGED now
           /\ LimiterOnly

\* Time passes.
Tick ==
    /\ now < MaxTime
    /\ now' = now + 1
    /\ UNCHANGED <<rlStore, windowLog, lastRequest>>
    /\ LimiterOnly

(***************************************************************************)
(* POST /api/admin/ai/batch (the admin router) and                         *)
(* OllamaService.analyzeBatch on the shared batchProgress.                 *)
(***************************************************************************)
NumRequests == 2
\* The guides each request names.
NumBatchGuides == 2
Requests == 1..NumRequests
\* batchProgress together with the stopRequested field of the service.
IdleBatch == [status |-> "idle", total |-> 0, processed |-> 0,
              stopRequested |-> FALSE]

NoBatch ==
    /\ batchReq = [r \in Requests |-> [pc |-> "none", i |-> 0]]
    /\ batchProgress = IdleBatch

BatchOnly ==
    UNCHANGED <<fsVars, storeVars, importerVars, importHist, extractorVars,
                extractHist, downloadVars, downloadHist, initVars, initHist,
                ftsVars, schemaVars, observerVars, serveVars, gameRow,
                lastUpdate, pathCall, parsed, readyResponse, lastDelete,
                lastBulk, importLog, limiterVars>>

\* OllamaService.isBatchRunning
isBatchRunning == batchProgress.status = "running"

\* The handler up to its first await: 409 when a batch is running, else
\* the availability check is started and awaited.
BatchRequest ==
    \E r \in Requests :
        /\ batchReq[r].pc = "none"
        /\ batchReq' = [batchReq EXCEPT ![r].pc =
                            IF isBatchRunning THEN "409" ELSE "checking"]
        /\ UNCHANGED batchProgress
        /\ BatchOnly

\* The availability check has settled: 503 when Ollama is not available;
\* else the 200 response is sent and the batch is deferred by setImmediate.
BatchChecked ==
    \E r \in Requests, available \in BOOLEAN :
        /\ batchReq[r].pc = "checking"
        /\ batchReq' = [batchReq EXCEPT ![r].pc =
                            IF available THEN "deferred" ELSE "503"]
        /\ UNCHANGED batchProgress
        /\ BatchOnly

\* The setImmediate callback: the guides are fetched and analyzeBatch
\* begins, which sets batchProgress anew, up to its first await.
BatchStart ==
    \E r \in Requests :
        /\ batchReq[r].pc = "deferred"
        /\ batchReq' = [batchReq EXCEPT ![r].pc = "analyzing"]
        /\ batchProgress' = [status |-> "running", total |-> NumBatchGuides,
                             processed |-> 0, stopRequested |-> FALSE]
        /\ BatchOnly

\* analyzeGuide of one guide has settled: processed++ on the shared
\* progress, then the next guide; or the loop ends, after the last guide
\* or at a requested stop, and status becomes complete or idle.
BatchStep ==
    \E r \in Requests :
        /\ batchReq[r].pc = "analyzing"
        /\ LET i == batchReq[r].i + 1
           IN IF i < NumBatchGuides /\ ~batchProgress.stopRequested
              THEN /\ batchReq' = [batchReq EXCEPT ![r].i = i]
                   /\ batchProgress' = [batchProgress EXCEPT
                                           !.processed = @ + 1]
              ELSE /\ batchReq' = [batchReq EXCEPT ![r] =
                                       [pc |-> "finished", i |-> i]]
                   /\ batchProgress' = [batchProgress EXCEPT
                                           !.processed = @ + 1,
                                           !.status =
                                              IF batchProgress.stopRequested
                                              THEN "idle" ELSE "complete"]
        /\ BatchOnly

\* POST /api/admin/ai/batch/stop: stopBatch when a batch is running (400
\* otherwise, which changes nothing).
BatchStop ==
    /\ isBatchRunning
    /\ ~batchProgress.stopRequested
    /\ batchProgress' = [batchProgress EXCEPT !.stopRequested = TRUE]
    /\ UNCHANGED batchReq
    /\ BatchOnly

\* A client that got its answer sends a further request.
BatchAgain ==
    \E r \in Requests :
        /\ batchReq[r].pc \in {"409", "503"}
        /\ batchReq' = [batchReq EXCEPT ![r] = [pc |-> "none", i |-> 0]]
        /\ UNCHANGED batchProgress
        /\ BatchOnly

(***************************************************************************)
(* InitService.onStatusChange and notifyListeners.                         *)
(***************************************************************************)
\* What a callback does when it is called: it returns, it throws, it calls
\* the unsubscribe function that onStatusChange gave it, or it subscribes
\* a callback that is not registered.
Behaviours == {"return", "throw", "unsubscribe", "subscribe"}

RECURSIVE RemoveFirst(_, _)
\* indexOf and splice(index, 1): the list without the first occurrence of o.
RemoveFirst(q, o) ==
    IF q = <<>> THEN <<>>
    ELSE IF Head(q) = o THEN Tail(q)
    ELSE <<Head(q)>> \o RemoveFirst(Tail(q), o)

\* listeners.push(callback) for a callback that is not registered, if any.
PushFresh(q) ==
    IF Observers \ SeqToSet(q) = {} THEN q
    ELSE Append(q, CHOOSE o \in Observers \ SeqToSet(q) :
                       \A x \in Observers \ SeqToSet(q) : o <= x)

\* A loop body without try/catch: the exception of a callback ends the loop.
afterListener_rethrow(kind) == IF kind = "throw" THEN "abort" ELSE "next"

\* Where the loop goes after a callback: its exception is caught and
\* logged, the next index follows.
afterListener(kind) == "next"

RECURSIVE forEachListener(_, _, _, _, _)
\* listeners.forEach from index k: the indices are those below the length
\* len0 that the list had when the loop began, an index beyond the present
\* end of the list is passed over, and what a callback does to the list is
\* seen by the rest of the loop.
forEachListener(k, len0, q, beh, got) ==
    IF k > len0 THEN [listeners |-> q, delivered |-> got, escaped |-> FALSE]
    ELSE IF k > Len(q) THEN forEachListener(k + 1, len0, q, beh, got)
    ELSE LET o == q[k]
             got2 == [got EXCEPT ![o] = @ + 1]
             q2 == CASE beh[o] = "unsubscribe" -> RemoveFirst(q, o)
                     [] beh[o] = "subscribe" -> PushFresh(q)
                     [] OTHER -> q
         IN IF afterListener(beh[o]) = "abort"
            THEN [listeners |-> q2, delivered |-> got2, escaped |-> TRUE]
            ELSE forEachListener(k + 1, len0, q2, beh, got2)

\* InitService.notifyListeners on the list q.
notifyListeners(q, beh) ==
    forEachListener(1, Len(q), q, beh, [o \in Observers |-> 0])

\* What no observer call touches.
ObserversOnly ==
    UNCHANGED <<fsVars, storeVars, importerVars, importHist, extractorVars,
                extractHist, downloadVars, downloadHist, initVars, initHist,
                ftsVars, schemaVars, callVars, serveVars>>

\* onStatusChange(callback) outside a publish.
Subscribe ==
    /\ \E o \in Observers \ SeqToSet(listeners) :
          listeners' = Append(listeners, o)
    /\ UNCHANGED <<delivered, registeredBefore, lastBeh, escaped>>
    /\ ObserversOnly

\* The unsubscribe function of a callback, called outside a publish.
Unsubscribe ==
    /\ \E o \in SeqToSet(listeners) : listeners' = RemoveFirst(listeners, o)
    /\ UNCHANGED <<delivered, registeredBefore, lastBeh, escaped>>
    /\ ObserversOnly

\* A publish (updateStatus, or the direct calls of initialize): every
\* registered callback does one of the things a callback can do (a
\* callback that is not registered when the loop begins is not called).
Publish ==
    /\ \E does \in [SeqToSet(listeners) -> Behaviours] :
          LET beh == [o \in Observers |->
                         IF o \in SeqToSet(listeners) THEN does[o]
                         ELSE "return"]
              r == notifyListeners(listeners, beh)
          IN /\ listeners' = r.listeners
             /\ delivered' = r.delivered
             /\ escaped' = r.escaped
             /\ lastBeh' = beh
    /\ registeredBefore' = SeqToSet(listeners)
    /\ ObserversOnly

(***************************************************************************)
(* Initial states.                                                         *)
(***************************************************************************)
\* External ids are numbered in order of first appearance (the ids are
\* interchangeable), so each directory layout is enumerated once.
CanonicalExt(info) ==
    \A f \in FileIds :
        info[f].ext # NoExt =>
            \A e \in 1..(info[f].ext - 1) : \E g \in 1..(f - 1) : info[g].ext = e

ImporterIdle ==
    /\ isImporting = FALSE
    /\ gameIdCache = [e \in ExtIds |-> NoGame]
    /\ stats = [imported |-> 0, skipped |-> 0, errors |-> 0]
    /\ guideFiles = <<>>
    /\ batchStart = 0
    /\ batchPos = 0
    /\ importedPaths = <<>>
    /\ impc = "idle"
    /\ tx = NoTx
    /\ unlinked = {}
    /\ unlinkFailed = {}
    /\ rolledBack = {}
    /\ retried = {}
    /\ faulted = {}

ExtractorIdle ==
    /\ extractorProgress = IdleProgress
    /\ expc = "idle"
    /\ entryCount = 0
    /\ zipRead = 0
    /\ sevenZipArchives = <<>>
    /\ attempted = {}
    /\ failed7z = {}
    /\ keptArchives = {}
    /\ entryFailures = {}
    /\ containerFailed = FALSE

DownloaderIdle ==
    /\ dlpc = "idle"
    /\ totalBytes = 0
    /\ downloaded = 0
    /\ dlSettled = "pending"
    /\ fileStreamOpen = FALSE
    /\ unlinkPending = 0
    /\ fileCreated = FALSE
    /\ interrupted = {}
    /\ dlUnlinkFailed = FALSE

\* No InitService drives the component: the callbacks are absent.
\* The index tables before any guide row is written through GuideModel.
NoIndex ==
    /\ ftsMeta = {}
    /\ ftsContent = {}
    /\ lastSearch = NoSearch

\* The further services have not been used.
NoServices ==
    /\ lastDelete = NoDelete
    /\ lastBulk = NoBulk
    /\ importLog = [rejected |-> 0, runs |-> 0]
    /\ NoLimiter
    /\ NoBatch

\* No single call has been made; the games table is empty.
NoCalls ==
    /\ gameRow = [g \in GameIds |-> NoRow]
    /\ lastUpdate = NoUpdate
    /\ pathCall = NoPathCall
    /\ parsed = NoParse
    /\ readyResponse = NoResponse
    /\ NoServices

\* No observer is registered and nothing was published.
NoObservers ==
    /\ listeners = <<>>
    /\ delivered = [o \in Observers |-> 0]
    /\ registeredBefore = {}
    /\ lastBeh = [o \in Observers |-> "return"]
    /\ escaped = FALSE

\* No request has arrived.
NoRequests ==
    /\ pendingRequests = {}
    /\ yields = {}
    /\ handledRequests = {}

NoInitService ==
    /\ status = IdleStatus
    /\ ipc = "none"
    /\ hadGuides = FALSE
    /\ cleanupFailed = FALSE
    /\ priorRun = "none"
    /\ priorCount = 0

(***************************************************************************)
(* SpecImport: importFromDirectory on a directory of NumFiles files.  The  *)
(* store is empty, or holds the game row that an earlier process left (a   *)
(* game row is written before the guide insert that the store rejected).   *)
(***************************************************************************)
ImportInit ==
    /\ fileInfo \in [FileIds -> [ext : {NoExt} \cup ExtIds, kind : Kinds]]
    /\ CanonicalExt(fileInfo)
    /\ guideDisk = FileIds
    /\ innerDisk = {}
    /\ archiveFile = FALSE
    /\ extractedDir = TRUE
    /\ guides = {}
    /\ games \in {{}} \cup {{[id |-> 1, ext |-> e]} : e \in ExtIds}
    /\ nextId = 2
    /\ ImporterIdle
    /\ ExtractorIdle
    /\ DownloaderIdle
    /\ NoIndex
    /\ NoMigration
    /\ NoCalls
    /\ NoObservers
    /\ NoRequests
    /\ NoInitService

ImportNext ==
    \/ ImportCall
    \/ BatchBegin
    \/ BatchInsert
    \/ BatchCommit
    \/ BatchCommitFails
    \/ BatchUnlink
    \/ RetryInsert
    \/ BatchYield
    \/ ImportFinish

SpecImport == ImportInit /\ [][ImportNext]_vars

(***************************************************************************)
(* SpecExtract: extractArchive on a downloaded container.                  *)
(***************************************************************************)
ExtractInit ==
    /\ fileInfo = [f \in FileIds |-> PlainFile]
    /\ guideDisk = {}
    /\ innerDisk = {}
    /\ archiveFile = TRUE
    /\ extractedDir = FALSE
    /\ guides = {}
    /\ games = {}
    /\ nextId = 1
    /\ ImporterIdle
    /\ ExtractorIdle
    /\ DownloaderIdle
    /\ NoIndex
    /\ NoMigration
    /\ NoCalls
    /\ NoObservers
    /\ NoRequests
    /\ NoInitService

ExtractNext ==
    \/ ExtractCall
    \/ ZipOpenFails
    \/ ZipOpened
    \/ ZipEntrySkipped
    \/ ZipEntryStreamFails
    \/ ZipEntryWritten
    \/ ZipEntryWriteFails
    \/ ZipEntryReadFails
    \/ ZipError
    \/ ZipEnd
    \/ SevenZStart
    \/ SevenZProgress
    \/ SevenZEnd
    \/ SevenZFails
    \/ ExtractComplete

SpecExtract == ExtractInit /\ [][ExtractNext]_vars

(***************************************************************************)
(* SpecDownload: downloadArchive to an empty destination.                  *)
(***************************************************************************)
DownloadInit ==
    /\ fileInfo = [f \in FileIds |-> PlainFile]
    /\ guideDisk = {}
    /\ innerDisk = {}
    /\ archiveFile = FALSE
    /\ extractedDir = FALSE
    /\ guides = {}
    /\ games = {}
    /\ nextId = 1
    /\ ImporterIdle
    /\ ExtractorIdle
    /\ DownloaderIdle
    /\ NoIndex
    /\ NoMigration
    /\ NoCalls
    /\ NoObservers
    /\ NoRequests
    /\ NoInitService

DownloadNext ==
    \/ DownloadCall
    \/ GetFails
    \/ GetResponds
    \/ DataChunk
    \/ ResponseEnd
    \/ FileFinish
    \/ FileStreamError
    \/ ResponseError
    \/ UnlinkCompletes

SpecDownload == DownloadInit /\ [][DownloadNext]_vars

(***************************************************************************)
(* Spec: a process that calls initialize once, on a store that is empty or *)
(* holds one guide of an earlier run.                                      *)
(***************************************************************************)
Init ==
    /\ fileInfo = [f \in FileIds |-> PlainFile]
    /\ guideDisk = {}
    /\ innerDisk = {}
    /\ archiveFile = FALSE
    /\ extractedDir = FALSE
    /\ guides \in {{}, {[id |-> 1, file |-> 1, game |-> NoGame]}}
    /\ games = {}
    /\ nextId = 2
    /\ ImporterIdle
    /\ ExtractorIdle
    /\ DownloaderIdle
    /\ NoIndex
    /\ NoMigration
    /\ NoCalls
    /\ NoObservers
    /\ NoRequests
    /\ status = IdleStatus
    /\ ipc = "start"
    /\ hadGuides = FALSE
    /\ cleanupFailed = FALSE
    /\ priorRun = "none"
    /\ priorCount = 0

\* The steps of one run of initialize.
RunNext ==
    \/ InitCall
    \/ InitAfterDownload
    \/ InitAfterExtract
    \/ InitAfterImport
    \/ InitCatch
    \/ DownloadNext
    \/ ExtractNext
    \/ ImportNext

Next ==
    \/ RunNext
    \/ InitAgain
    \/ ProcessRestart

Spec == Init /\ [][Next]_vars

\* One run of initialize in a process that nobody kills: the event loop
\* runs a callback or continuation whenever one is ready, and the network,
\* the disk and the 7z child process deliver the events they owe.
SpecLive == Init /\ [][RunNext]_vars /\ WF_vars(RunNext)

(***************************************************************************)
(* SpecGuides: GuideModel calls on a store that starts without guides.     *)
(***************************************************************************)
GuidesInit ==
    /\ fileInfo = [f \in FileIds |-> PlainFile]
    /\ guideDisk = {}
    /\ innerDisk = {}
    /\ archiveFile = FALSE
    /\ extractedDir = FALSE
    /\ guides = {}
    /\ games = {}
    /\ nextId = 1
    /\ ImporterIdle
    /\ ExtractorIdle
    /\ DownloaderIdle
    /\ NoIndex
    /\ NoMigration
    /\ NoCalls
    /\ NoObservers
    /\ NoRequests
    /\ NoInitService

GuidesNext ==
    \/ GuideCreate
    \/ GuideUpdate
    \/ GuideSetMetadata
    \/ GuideDelete

SpecGuides == GuidesInit /\ [][GuidesNext]_vars

(***************************************************************************)
(* SpecObservers: callbacks subscribe, unsubscribe and are notified.       *)
(***************************************************************************)
ObserversInit ==
    /\ fileInfo = [f \in FileIds |-> PlainFile]
    /\ guideDisk = {}
    /\ innerDisk = {}
    /\ archiveFile = FALSE
    /\ extractedDir = FALSE
    /\ guides = {}
    /\ games = {}
    /\ nextId = 1
    /\ ImporterIdle
    /\ ExtractorIdle
    /\ DownloaderIdle
    /\ NoIndex
    /\ NoMigration
    /\ NoCalls
    /\ NoObservers
    /\ NoRequests
    /\ NoInitService

ObserversNext ==
    \/ Subscribe
    \/ Unsubscribe
    \/ Publish

SpecObservers == ObserversInit /\ [][ObserversNext]_vars

(***************************************************************************)
(* SpecServe: importFromDirectory on a directory of well-formed files      *)
(* while requests arrive at the HTTP server of the process.                *)
(***************************************************************************)
ServeInit ==
    /\ fileInfo = [f \in FileIds |-> PlainFile]
    /\ guideDisk = FileIds
    /\ innerDisk = {}
    /\ archiveFile = FALSE
    /\ extractedDir = TRUE
    /\ guides = {}
    /\ games = {}
    /\ nextId = 1
    /\ ImporterIdle
    /\ ExtractorIdle
    /\ DownloaderIdle
    /\ NoIndex
    /\ NoMigration
    /\ NoCalls
    /\ NoObservers
    /\ NoRequests
    /\ NoInitService

ServeNext ==
    \/ ImportNext
    \/ RequestArrives
    \/ RequestHandled

SpecServe == ServeInit /\ [][ServeNext]_vars

(***************************************************************************)
(* SpecSearch: GuideModel.search on a store whose guides were created and  *)
(* deleted through GuideModel.                                             *)
(***************************************************************************)
SearchNext ==
    \/ GuideCreate
    \/ GuideDelete
    \/ GuideSearch

SpecSearch == GuidesInit /\ [][SearchNext]_vars

(***************************************************************************)
(* SpecMigrate: the application is started up to MaxStartups times on one  *)
(* database file.  The file is new, or was left by an earlier build at     *)
(* some version (guides with or without the column below version 7), or by *)
(* a later build at a version above SCHEMA_VERSION.                        *)
(***************************************************************************)
StoreIdle ==
    /\ fileInfo = [f \in FileIds |-> PlainFile]
    /\ guideDisk = {}
    /\ innerDisk = {}
    /\ archiveFile = FALSE
    /\ extractedDir = FALSE
    /\ guides = {}
    /\ games = {}
    /\ nextId = 1
    /\ ImporterIdle
    /\ ExtractorIdle
    /\ DownloaderIdle
    /\ NoIndex
    /\ NoObservers
    /\ NoRequests
    /\ NoInitService

MigrateInit ==
    /\ StoreIdle
    /\ NoCalls
    /\ pendingMigrations = <<>>
    /\ mpc = "idle"
    /\ applied = <<>>
    /\ startups = 0
    /\ interruptedAt = {}
    /\ \/ /\ startedEmpty = TRUE
          /\ schemaVersions = {}
          /\ guidesTable = "absent"
       \/ /\ startedEmpty = FALSE
          /\ \E k \in 1..(SCHEMA_VERSION + 1) :
                /\ schemaVersions = 1..k
                /\ guidesTable \in IF k >= 7 THEN {"current"}
                                   ELSE {"legacy", "current"}

MigrateNext ==
    \/ MigrateCall
    \/ MigrateUp
    \/ MigrateRecord
    \/ MigrateDone

SpecMigrate == MigrateInit /\ [][MigrateNext]_vars

(***************************************************************************)
(* SpecGame: completion updates on a games table of up to NumGames rows,   *)
(* each created not started or in progress.                                *)
(***************************************************************************)
GameInit ==
    /\ StoreIdle
    /\ NoMigration
    /\ gameRow \in [GameIds -> {NoRow,
                                [completion_percentage |-> 0,
                                 status |-> "not_started"],
                                [completion_percentage |-> 50,
                                 status |-> "in_progress"]}]
    /\ lastUpdate = NoUpdate
    /\ pathCall = NoPathCall
    /\ parsed = NoParse
    /\ readyResponse = NoResponse
    /\ NoServices

GameNext ==
    \/ UpdateCompletionPercentage
    \/ UpdateStatus

SpecGame == GameInit /\ [][GameNext]_vars

(***************************************************************************)
(* SpecPaths: importSingleGuideSync on one path, any path of up to         *)
(* MaxDepth folders.                                                       *)
(***************************************************************************)
CallsInit ==
    /\ StoreIdle
    /\ NoMigration
    /\ NoCalls

PathsInit ==
    /\ StoreIdle
    /\ NoMigration
    /\ gameRow = [g \in GameIds |-> NoRow]
    /\ lastUpdate = NoUpdate
    /\ parsed = NoParse
    /\ readyResponse = NoResponse
    /\ NoServices
    /\ \E folders \in Paths, file \in FileNames, known \in BOOLEAN :
          pathCall = [NoPathCall EXCEPT !.folders = folders, !.file = file,
                                        !.known = known]

PathsNext == ImportSingleGuide

SpecPaths == PathsInit /\ [][PathsNext]_vars

(***************************************************************************)
(* SpecParse: parseGuide on one file at a time.                            *)
(***************************************************************************)
ParseNext == ParseGuide

SpecParse == CallsInit /\ [][ParseNext]_vars

(***************************************************************************)
(* SpecReady: readiness probes arrive while initialize runs, and after it, *)
(* also when it is called again.  The handler is synchronous: it composes  *)
(* and hands over its response before any other step of the process.       *)
(***************************************************************************)
ReadyNext ==
    \/ readyResponse = NoResponse /\ RunNext
    \/ readyResponse = NoResponse /\ InitAgain
    \/ HealthReady
    \/ ResponseSent

SpecReady == Init /\ [][ReadyNext]_vars

(***************************************************************************)
(* SpecGameDelete: guides are created with and without a game, and games   *)
(* are deleted, on a store that starts with NumGames games.                *)
(***************************************************************************)
GameDeleteInit ==
    /\ fileInfo = [f \in FileIds |-> PlainFile]
    /\ guideDisk = {}
    /\ innerDisk = {}
    /\ archiveFile = FALSE
    /\ extractedDir = FALSE
    /\ guides = {}
    /\ games = {[id |-> g, ext |-> NoExt] : g \in GameIds}
    /\ nextId = 1
    /\ ImporterIdle
    /\ ExtractorIdle
    /\ DownloaderIdle
    /\ NoIndex
    /\ NoMigration
    /\ NoCalls
    /\ NoObservers
    /\ NoRequests
    /\ NoInitService

GameDeleteNext ==
    \/ GuideCreateLinked
    \/ GameDelete

SpecGameDelete == GameDeleteInit /\ [][GameDeleteNext]_vars

(***************************************************************************)
(* SpecBulk: bulkCreate calls, one after the other, on a store that starts *)
(* without guides.                                                         *)
(***************************************************************************)
BulkNext == BulkCreate \/ GuideCreate \/ GuideDelete

SpecBulk == GuidesInit /\ [][BulkNext]_vars

(***************************************************************************)
(* SpecReentry: importFromDirectory runs on one importer object, with      *)
(* calls arriving during a run, and runs that return or throw.  The files  *)
(* are well-formed and carry no external id, and no transaction fails.     *)
(***************************************************************************)
ReentryInit ==
    /\ fileInfo = [f \in FileIds |-> PlainFile]
    /\ guideDisk = FileIds
    /\ innerDisk = {}
    /\ archiveFile = FALSE
    /\ extractedDir = TRUE
    /\ guides = {}
    /\ games = {}
    /\ nextId = 1
    /\ ImporterIdle
    /\ ExtractorIdle
    /\ DownloaderIdle
    /\ NoIndex
    /\ NoMigration
    /\ NoCalls
    /\ NoObservers
    /\ NoRequests
    /\ NoInitService

ReentryNext ==
    \/ ImportCall
    \/ BatchBegin
    \/ BatchInsert
    \/ BatchCommit
    \/ BatchUnlink
    \/ BatchYield
    \/ ImportFinish
    \/ ImportRejected
    \/ ImportThrows
    \/ ImportReturn

SpecReentry == ReentryInit /\ [][ReentryNext]_vars

(***************************************************************************)
(* SpecMigrateStop: runMigrations on a database file of an earlier build   *)
(* (version 3 to 6, guides without ai_analyzed_at) that holds one          *)
(* guide, where the process may stop inside a migration and is started     *)
(* again.  At version 6 the split index holds the rows of the guide.       *)
(***************************************************************************)
MigrateStopInit ==
    /\ fileInfo = [f \in FileIds |-> PlainFile]
    /\ guideDisk = {}
    /\ innerDisk = {}
    /\ archiveFile = FALSE
    /\ extractedDir = FALSE
    /\ \E m \in {Null, "{tags:a}"} :
          guides = {[id |-> 1, file |-> 1, game |-> NoGame, title |-> "t1",
                     content |-> "c1", metadata |-> m]}
    /\ games = {}
    /\ nextId = 2
    /\ ImporterIdle
    /\ ExtractorIdle
    /\ DownloaderIdle
    /\ NoObservers
    /\ NoRequests
    /\ NoInitService
    /\ NoCalls
    /\ lastSearch = NoSearch
    /\ pendingMigrations = <<>>
    /\ mpc = "idle"
    /\ applied = <<>>
    /\ startups = 0
    /\ interruptedAt = {}
    /\ startedEmpty = FALSE
    /\ guidesTable = "legacy"
    /\ \E k \in 3..6 :
          /\ schemaVersions = 1..k
          /\ ftsMeta = IF k >= 6 THEN populateMeta({}, guides) ELSE {}
          /\ ftsContent = IF k >= 6 THEN populateContent({}, guides) ELSE {}

MigrateStopNext ==
    \/ MigrateNext
    \/ MigrateStop

SpecMigrateStop == MigrateStopInit /\ [][MigrateStopNext]_vars

(***************************************************************************)
(* SpecLimiter: requests of NumIps clients to the rate limiter while time  *)
(* passes.                                                                 *)
(***************************************************************************)
LimiterInit == StoreIdle /\ NoMigration /\ NoCalls

LimiterNext == RateLimit \/ Tick

SpecLimiter == LimiterInit /\ [][LimiterNext]_vars

(***************************************************************************)
(* SpecBatch: NumRequests batch start requests to the admin router.        *)
(***************************************************************************)
BatchInit == StoreIdle /\ NoMigration /\ NoCalls

BatchNext ==
    \/ BatchRequest
    \/ BatchChecked
    \/ BatchStart
    \/ BatchStep
    \/ BatchStop
    \/ BatchAgain

SpecBatch == BatchInit /\ [][BatchNext]_vars

(***************************************************************************)
(* Properties of the importer.                                             *)
(***************************************************************************)
RunFiles == {guideFiles[i] : i \in 1..Len(guideFiles)}
Malformed(f) == fileInfo[f].kind # "ok"
HasRow(f) == \E g \in CommittedGuides : g.file = f
\* The run has ended, no batch of it was rolled back, one file is malformed.
OneMalformedRun ==
    /\ impc = "done"
    /\ rolledBack = {}
    /\ Cardinality({f \in RunFiles : Malformed(f)}) = 1

\* C3 as stated: with N files of which exactly one is malformed, the run
\* reports N-1 imported and 1 error, the N-1 good guides are committed, the
\* N-1 good files are gone from disk and the malformed file is still there.
C3_AsStated ==
    OneMalformedRun =>
        /\ stats.imported = Len(guideFiles) - 1
        /\ stats.errors = 1
        /\ \A f \in RunFiles :
              IF Malformed(f)
              THEN f \in guideDisk /\ ~HasRow(f)
              ELSE f \notin guideDisk /\ HasRow(f)

\* C3 as amended: the same, except that a good file whose unlinkSync threw
\* (the throw is ignored) is still on disk; no other file is.
C3_BatchIsolation ==
    OneMalformedRun =>
        /\ stats.imported = Len(guideFiles) - 1
        /\ stats.errors = 1
        /\ \A f \in RunFiles :
              IF Malformed(f)
              THEN f \in guideDisk /\ ~HasRow(f)
              ELSE HasRow(f) /\ (f \in guideDisk <=> f \in unlinkFailed)

\* A run over more than one batch, one malformed file, two good files
\* deleted.
C3_Witness ==
    /\ OneMalformedRun
    /\ Len(guideFiles) > BATCH_SIZE
    /\ Cardinality(unlinked) >= 2

\* C4 as stated: after a rolled-back batch every file of it is retried on
\* its own; a retried file that is well-formed and whose retry met no store
\* fault is committed and deleted (or its unlinkSync threw), and a retried
\* file that is not committed is still on disk.
C4_AsStated ==
    \A f \in retried :
        /\ (~Malformed(f) /\ f \notin faulted) =>
              HasRow(f) /\ (f \notin guideDisk \/ f \in unlinkFailed)
        /\ ~HasRow(f) => f \in guideDisk

\* C5: a file is gone from disk only if a guide row for it is committed.
C5_DeleteOnlyCommitted ==
    \A f \in FileIds \ guideDisk : HasRow(f)

\* A batch was rolled back, a file of the run is deleted and another file,
\* whose retry failed, is still on disk without a row.
C5_Witness ==
    /\ rolledBack # {}
    /\ unlinked # {}
    /\ \E f \in retried : f \in guideDisk /\ ~HasRow(f)

\* C6: at most one game row per external id, and every guide whose path
\* carries an external id is linked to the game row of that id (a guide
\* whose path carries none is linked to no game); inside a transaction too.
C6_OneGamePerExternalId ==
    /\ \A g1 \in games : \A g2 \in games : g1.ext = g2.ext => g1 = g2
    /\ \A gd \in guides :
          IF fileInfo[gd.file].ext = NoExt
          THEN gd.game = NoGame
          ELSE \E g \in games : g.id = gd.game /\ g.ext = fileInfo[gd.file].ext

\* Two guides of one external id, committed by different batches, linked
\* to the single game row.
C6_Witness ==
    /\ impc = "done"
    /\ Cardinality(games) = 1
    /\ \E g1 \in guides : \E g2 \in guides :
          /\ g1.file <= BATCH_SIZE
          /\ g2.file > BATCH_SIZE
          /\ g1.game = g2.game
          /\ g1.game # NoGame

(***************************************************************************)
(* Properties of the extractor.                                            *)
(***************************************************************************)
\* The inner archives before the one that stage 2 is at.
EarlierInner ==
    {sevenZipArchives[i] : i \in 1..(extractorProgress.currentArchive - 1)}

\* C7 as stated: an inner archive that has been attempted is no longer on
\* disk, and while inner archive i+1 is extracted every inner archive
\* before it has been attempted and is gone.
C7_AsStated ==
    /\ \A a \in attempted : a \notin innerDisk
    /\ expc = "sevenz" =>
          \A a \in EarlierInner : a \in attempted /\ a \notin innerDisk

\* C7 as amended: the same, except for an inner archive whose unlinkSync
\* threw (the throw is caught and logged): that one, and no other attempted
\* archive, is still on disk.
C7_InnerArchiveDeleted ==
    /\ \A a \in attempted : a \in innerDisk <=> a \in keptArchives
    /\ expc = "sevenz" =>
          \A a \in EarlierInner :
              a \in attempted /\ (a \in innerDisk <=> a \in keptArchives)

\* The second inner archive is being extracted, the first one failed and
\* is gone: only the second is on disk.
C7_Witness ==
    /\ expc = "sevenz"
    /\ extractorProgress.currentArchive = 2
    /\ sevenZipArchives[1] \in failed7z
    /\ innerDisk = {sevenZipArchives[2]}

\* C8: the failure of an inner archive is recorded in the progress and
\* does not end extractArchive with an error, and status "complete" (the
\* return of extractArchive) comes only when every inner archive of the
\* list has been attempted.
C8_InnerFailureNotFatal ==
    /\ failed7z # {} =>
          /\ extractorProgress.error = "7z"
          /\ extractorProgress.status # "error"
          /\ expc # "failed"
    /\ (extractorProgress.status = "complete" \/ expc = "done") =>
          attempted = SeqToSet(sevenZipArchives)

\* extractArchive has returned with status "complete" after the first
\* inner archive failed and the second one was extracted.
C8_Witness ==
    /\ expc = "done"
    /\ extractorProgress.status = "complete"
    /\ Len(sevenZipArchives) = 2
    /\ failed7z = {sevenZipArchives[1]}
    /\ sevenZipArchives[2] \in attempted

\* C9 as stated: when the container could not be opened, or reading it or
\* one of its inner-archive entries failed, then once stage 1 is over (and
\* the process has not died) extractArchive has raised, the status is
\* "error" and no inner archive was attempted.
C9_AsStated ==
    ((containerFailed \/ entryFailures # {})
        /\ expc \notin {"open", "zip", "crashed"}) =>
        /\ expc = "failed"
        /\ extractorProgress.status = "error"
        /\ attempted = {}

(***************************************************************************)
(* Properties of the downloader.                                           *)
(***************************************************************************)
\* C10 as stated: when the response or the file write failed after the
\* destination file was created, the promise is rejected and no file is at
\* the destination; a promise that resolved saw neither failure.
C10_AsStated ==
    /\ (fileCreated /\ interrupted # {}) =>
          dlSettled = "rejected" /\ ~archiveFile
    /\ dlSettled = "resolved" => interrupted = {}

\* C10 as amended: the promise is rejected at once, and the file is gone
\* once the fs.unlink calls that the handlers issued have completed, unless
\* one of them failed (its error is dropped); a promise that resolved saw
\* neither failure.
C10_PartialFileRemoved ==
    /\ (fileCreated /\ interrupted # {}) =>
          /\ dlSettled = "rejected"
          /\ (unlinkPending = 0 /\ ~dlUnlinkFailed) => ~archiveFile
    /\ dlSettled = "resolved" => interrupted = {}

\* The response failed after two chunks, the promise is rejected, the
\* unlink has completed and the file is gone.
C10_Witness ==
    /\ "stream" \in interrupted
    /\ downloaded >= 2
    /\ fileCreated
    /\ dlSettled = "rejected"
    /\ unlinkPending = 0
    /\ ~archiveFile

(***************************************************************************)
(* Properties of initialize.                                               *)
(***************************************************************************)
\* C1: when initialize found a guide in the store (first run of the
\* process on this disk, so nothing of an earlier run is around), the
\* status is complete
\* at 100 with the counts of the store, initialize has returned, and
\* neither downloadArchive, extractArchive nor importFromDirectory was
\* called: no file or directory was made and no unlink was issued.
C1_SkipWhenInitialized ==
    (hadGuides /\ priorRun = "none") =>
        /\ status.stage = "complete"
        /\ status.progress = 100
        /\ status.guideCount = Cardinality(guides)
        /\ ipc = "done"
        /\ dlpc = "idle" /\ expc = "idle" /\ impc = "idle"
        /\ ~fileCreated /\ ~archiveFile /\ ~extractedDir
        /\ guideDisk = {} /\ innerDisk = {}
        /\ unlinkPending = 0

\* initialize has returned on a store that held a guide.
C1_Witness ==
    /\ hadGuides
    /\ ipc = "done"
    /\ status.stage = "complete"
    /\ status.guideCount >= 1

\* The order of the stages.
StageRank(stage) ==
    CASE stage = "idle" -> 0
      [] stage = "downloading" -> 1
      [] stage = "extracting" -> 2
      [] stage = "importing" -> 3
      [] stage = "complete" -> 4
      [] stage = "error" -> 5

\* C2 as stated: from one published snapshot to the next the progress does
\* not decrease and the stage does not move backwards.  A step to or from
\* the error snapshot is not compared, and neither is a step of a run whose
\* download has passed the size that the HEAD probe announced.
C2_AsStated ==
    [][(/\ status.stage # "error"
        /\ status'.stage # "error"
        /\ (totalBytes' = 0 \/ downloaded' <= totalBytes')) =>
          /\ status'.progress >= status.progress
          /\ StageRank(status'.stage) >= StageRank(status.stage)]_vars

(***************************************************************************)
(* Properties of the full-text index.                                      *)
(***************************************************************************)
MetaEntries(id) == {e \in ftsMeta : e.guide_id = id}
ContentEntries(id) == {e \in ftsContent : e.guide_id = id}

\* C11: every guide row has exactly one row in the meta index and exactly
\* one in the content index, and every index row belongs to a guide row.
C11_IndexCoversGuides ==
    /\ \A g \in guides :
          /\ Cardinality(MetaEntries(g.id)) = 1
          /\ Cardinality(ContentEntries(g.id)) = 1
    /\ \A e \in ftsMeta \cup ftsContent : \E g \in guides : g.id = e.guide_id

\* All guides have been created, one was deleted since, and the one that is
\* left was updated: its index rows are not those of its insert.
C11_Witness ==
    /\ nextId = MaxGuides + 1
    /\ Cardinality(guides) = 1
    /\ \E g \in guides :
          /\ g.title = "t2" /\ g.content = "c2"
          /\ \E e \in ftsMeta : e.guide_id = g.id /\ e.title = "t2"
          /\ \E e \in ftsContent : e.guide_id = g.id /\ e.content = "c2"

\* The index rows that the current columns of row g call for.
MetaCurrent(g) ==
    \A e \in MetaEntries(g.id) :
        e.title = g.title /\ e.tags = COALESCE(jsonTags(g.metadata), "")
ContentCurrent(g) ==
    \A e \in ContentEntries(g.id) : e.content = g.content

\* C12 as stated: a step that changes only the metadata of a guide leaves
\* its content-index row as it was and brings its meta-index row to the new
\* metadata; a step that changes only its content brings the content-index
\* row to the new content and leaves its meta-index row as it was.
C12_AsStated ==
    [][\A g \in guides : \A h \in guides' :
          (g.id = h.id /\ g.title = h.title) =>
              /\ (g.metadata # h.metadata /\ g.content = h.content) =>
                    /\ ContentEntries(g.id)' = ContentEntries(g.id)
                    /\ \A e \in MetaEntries(h.id)' :
                          e.tags = COALESCE(jsonTags(h.metadata), "")
              /\ (g.content # h.content /\ g.metadata = h.metadata) =>
                    /\ MetaEntries(g.id)' = MetaEntries(g.id)
                    /\ \A e \in ContentEntries(h.id)' : e.content = h.content
      ]_vars

\* C13 as stated: the meta-index row of every guide holds its current title
\* and the tags of its current metadata, and its content-index row holds
\* its current content.
C13_AsStated ==
    \A g \in guides : MetaCurrent(g) /\ ContentCurrent(g)

(***************************************************************************)
(* Properties of the observers.                                            *)
(***************************************************************************)
\* The last publish changed no registration.
QuietPublish == \A o \in registeredBefore : lastBeh[o] \in {"return", "throw"}

\* C14: no exception of a callback leaves notifyListeners, and in a publish
\* during which no callback changes a registration every registered
\* callback is called once, whichever callbacks before it threw.
C14_ThrowingObserverIsolated ==
    /\ ~escaped
    /\ QuietPublish => \A o \in registeredBefore : delivered[o] = 1

\* Every callback is registered, all but the last threw in the last
\* publish and every one of them was called.
C14_Witness ==
    /\ Len(listeners) = NumObservers
    /\ registeredBefore = Observers
    /\ \A i \in 1..(NumObservers - 1) : lastBeh[listeners[i]] = "throw"
    /\ \A o \in Observers : delivered[o] = 1

\* C15 as stated: every callback that was registered when the publish
\* began and did not unsubscribe was called exactly once by it.
C15_AsStated ==
    \A o \in registeredBefore :
        lastBeh[o] # "unsubscribe" => delivered[o] = 1

(***************************************************************************)
(* Properties of the import as a task of the server's event loop.          *)
(***************************************************************************)
\* The synchronous part of a batch is running.
InBatch == impc \in {"insert", "commit", "unlink", "retry"}

\* The starts of the batches before the running one.
EarlierBatches == {i \in 0..(batchStart - 1) : i % BATCH_SIZE = 0}

\* C18 as stated: while a batch runs, no request that arrived during an
\* earlier batch is still waiting.
C18_AsStated ==
    InBatch => \A r \in pendingRequests : r >= batchStart

\* C18 as amended: while a batch runs, the import has yielded to the event
\* loop after every earlier batch.
C18_YieldsAfterEveryBatch ==
    InBatch => EarlierBatches \subseteq yields

\* The second batch runs, the import yielded after the first, and the
\* request that arrived during the first batch was handled in that turn.
C18_Witness ==
    /\ InBatch
    /\ batchStart = BATCH_SIZE
    /\ yields = {0}
    /\ handledRequests = {0}

(***************************************************************************)
(* Properties of the pipeline as a whole.                                  *)
(***************************************************************************)
\* A stage of the running pipeline has failed for good.
StageFailed ==
    \/ ipc \in {"failed", "crashed"}
    \/ ipc = "download" /\ dlSettled = "rejected"
    \/ ipc = "extract" /\ expc \in {"failed", "crashed"}

\* C16 as stated: when a stage has failed for good the host process keeps
\* running, and once the failure has been handled the published status is
\* stage error with the error message and the committed guides are still
\* in the store.
C16_AsStated ==
    StageFailed =>
        /\ ipc # "crashed"
        /\ ipc = "failed" =>
              /\ status.stage = "error"
              /\ status.error
              /\ \A f \in unlinked : HasRow(f)

\* The download is between its call and the settling of its streams.
Downloading == dlpc \in {"get", "stream", "flush"}

\* The extraction is between its call and its return or throw.
Extracting == expc \in {"open", "zip", "stage2", "sevenz"}

\* The import is between its call and its return.
Importing == impc \notin {"idle", "done"}

\* C17: within a pipeline run the three stages never overlap; the
\* extraction has started only if the download has resolved and its
\* streams are closed, and the import has started only if the extraction
\* has returned and initialize has passed the deletion of the archive
\* (checked for the first run; the stages never overlap in any run).
C17_StagesInSequence ==
    /\ Downloading => ~Extracting /\ ~Importing
    /\ Extracting => ~Importing
    /\ priorRun = "none" =>
          /\ expc # "idle" =>
                /\ dlpc = "done"
                /\ dlSettled = "resolved"
                /\ ~fileStreamOpen
          /\ impc # "idle" =>
                /\ expc = "done"
                /\ ipc \in {"import", "done", "failed"}

\* The import is inserting a guide in a pipeline run whose download and
\* extraction have ended.
C17_Witness ==
    /\ ipc = "import"
    /\ impc = "insert"
    /\ dlpc = "done"
    /\ expc = "done"

\* A later run of initialize has ended.
LaterRunEnded == priorRun # "none" /\ ipc \in {"done", "failed"}

\* C19 as stated: when a run was killed or failed with guides committed,
\* the later run of initialize does not end before every well-formed guide
\* file that is still on disk has been imported.
C19_AsStated ==
    (LaterRunEnded /\ priorRun \in {"killed", "error"} /\ priorCount > 0) =>
        \A f \in guideDisk : ~Malformed(f) => HasRow(f)

\* C20 as stated: after a run that ended in stage complete a later
\* initialize does not start the download.
C20_AsStated ==
    priorRun = "complete" => ipc \in {"start", "done"}

\* C20 as amended: after a run that ended in stage complete with a guide
\* in the store, a later initialize publishes complete and returns
\* without starting the download, the extraction or the import.
C20_CompleteStaysComplete ==
    (priorRun = "complete" /\ priorCount > 0) =>
        /\ ipc \in {"start", "done"}
        /\ ipc = "done" =>
              /\ status.stage = "complete"
              /\ status.progress = 100
              /\ status.guideCount = priorCount
        /\ ~Downloading /\ ~Extracting /\ ~Importing

\* A restarted process has run initialize after a run that imported a
\* guide and ended in complete.
C20_Witness ==
    /\ priorRun = "complete"
    /\ priorCount > 0
    /\ ipc = "done"
    /\ hadGuides
    /\ nextId > 2
    /\ dlpc = "idle"

\* C21 as stated: every run of initialize in a process that is not killed
\* ends: initialize returns (stage complete) or throws (stage error).
C21_AsStated == <>(ipc \in {"done", "failed"})

\* A run that does not end has stopped in the process exit that follows an
\* error of an entry's read stream.
RunEndsOrExits == <>(ipc \in {"done", "failed", "crashed"})

(***************************************************************************)
(* Properties of the extractor's status.                                   *)
(***************************************************************************)
\* C22 as stated: no step changes the status of the extractor from error
\* to another status.
C22_AsStated ==
    [][extractorProgress.status = "error" =>
         extractorProgress'.status = "error"]_vars

(***************************************************************************)
(* Properties of the published status.                                     *)
(***************************************************************************)
\* C23 as stated: the progress of the status is within 0..100.
C23_AsStated == status.progress \in 0..100

(***************************************************************************)
(* Properties of GuideModel.search.                                        *)
(***************************************************************************)
\* A sequence without a repeated element.
NoRepeat(s) == \A i, j \in DOMAIN s : s[i] = s[j] => i = j

\* C24: the two lists of a search share no guide, no guide of the content
\* list is in the metadata list, and each list has at most limit guides
\* (each once).
C24_ListsDisjoint ==
    lastSearch.query # "none" =>
        /\ SeqToSet(lastSearch.guides) \cap SeqToSet(lastSearch.content) = {}
        /\ Len(lastSearch.guides) <= lastSearch.limit
        /\ Len(lastSearch.content) <= lastSearch.limit
        /\ NoRepeat(lastSearch.guides)
        /\ NoRepeat(lastSearch.content)

\* A search returned both lists non-empty, and a guide that matched both
\* indexes was kept out of the content list.
C24_Witness ==
    /\ lastSearch.guides # <<>>
    /\ lastSearch.content # <<>>
    /\ SeqToSet(lastSearch.metaIds) \cap SeqToSet(lastSearch.contentIds) # {}

\* C25 as stated: each list is in the rank order of its index.
C25_AsStated ==
    /\ lastSearch.guides = lastSearch.metaIds
    /\ lastSearch.content =
           contentOnly(lastSearch.contentIds, SeqToSet(lastSearch.metaIds))

(***************************************************************************)
(* C26.  Initialising the store on an empty database applies every         *)
(* migration exactly once, in ascending order, without an error, and       *)
(* leaves SCHEMA_VERSION as the highest recorded version; initialising it  *)
(* again applies nothing.                                                  *)
(***************************************************************************)
MigrateEnded == mpc \in {"ok", "threw"}

C26_AsStated ==
    (startedEmpty /\ MigrateEnded) =>
        /\ mpc = "ok"
        /\ getCurrentVersion = SCHEMA_VERSION
        /\ startups = 1 => applied = migrations
        /\ startups > 1 => applied = <<>>

\* What the code does on an empty database: the first start applies 1 to 6
\* in order and fails in migration 7; every later start fails there again.
FreshStartFailsAtSeven ==
    (startedEmpty /\ MigrateEnded) =>
        /\ mpc = "threw"
        /\ getCurrentVersion = SCHEMA_VERSION - 1
        /\ startups = 1 => applied = SubSeq(migrations, 1, SCHEMA_VERSION - 1)
        /\ startups > 1 => applied = <<>>

(***************************************************************************)
(* C27.  updateCompletionPercentage(id, p) on an existing game stores p    *)
(* clamped to [0,100] and sets the status to not_started when the stored   *)
(* value is 0, to completed when it is 100, and to in_progress for any     *)
(* value strictly between.                                                 *)
(***************************************************************************)
C27_ClampAndStatus ==
    lastUpdate.changed =>
        LET p == lastUpdate.percentage
            row == gameRow[lastUpdate.id]
            c == row.completion_percentage
        IN /\ c = (IF p < 0 THEN 0 ELSE IF p > 100 THEN 100 ELSE p)
           /\ c = 0 => row.status = "not_started"
           /\ c = 100 => row.status = "completed"
           /\ (0 < c /\ c < 100) => row.status = "in_progress"

\* A value above 100 was stored as 100 on a game that was not completed
\* by the caller's own status.
C27_Witness ==
    /\ lastUpdate.changed
    /\ lastUpdate.percentage > 100
    /\ gameRow[lastUpdate.id].completion_percentage = 100
    /\ gameRow[lastUpdate.id].status = "completed"

(***************************************************************************)
(* C28.  A guide file whose path has no numeric-id-prefixed folder         *)
(* directly above a faqs folder is imported with no game link and creates  *)
(* no Game; when such a folder exists, the external id is the folder's     *)
(* numeric prefix and the platform is taken from the folder two levels     *)
(* above faqs.                                                             *)
(***************************************************************************)
\* The positions (in the folders of the call) of a faqs folder that has an
\* id-prefixed folder directly above it.
IdFolderBelowAt ==
    {i \in 2..Len(pathCall.folders) :
        /\ isFaqs(pathCall.folders[i])
        /\ numericPrefix(pathCall.folders[i - 1]) # NoId}

Imported == pathCall.done

C28_AsStated ==
    Imported =>
        IF IdFolderBelowAt = {}
        THEN ~pathCall.linked /\ ~pathCall.gameCreated
        ELSE \E i \in IdFolderBelowAt :
                /\ pathCall.gameId = numericPrefix(pathCall.folders[i - 1])
                /\ pathCall.platform =
                       IF i >= 3 THEN normalizePlatform(pathCall.folders[i - 2])
                       ELSE NoPlatform

\* Amended: only the first faqs folder of the path counts, and without an
\* id-prefixed folder directly above it the id is the numeric prefix of the
\* file name; the guide has no game link and no Game is created exactly
\* when neither gives an id.
FirstFaqs ==
    IF \E i \in 1..Len(pathCall.folders) : isFaqs(pathCall.folders[i])
    THEN CHOOSE i \in 1..Len(pathCall.folders) :
            /\ isFaqs(pathCall.folders[i])
            /\ \A j \in 1..(i - 1) : ~isFaqs(pathCall.folders[j])
    ELSE 0

C28_FirstFaqsOrFilename ==
    Imported =>
        LET i == FirstFaqs
            byFolder == i >= 2 /\ numericPrefix(pathCall.folders[i - 1]) # NoId
        IN /\ byFolder =>
                /\ pathCall.gameId = numericPrefix(pathCall.folders[i - 1])
                /\ pathCall.platform =
                       IF i >= 3 THEN normalizePlatform(pathCall.folders[i - 2])
                       ELSE NoPlatform
           /\ ~byFolder =>
                /\ pathCall.gameId = (IF pathCall.file = "34-zelda.txt"
                                      THEN "34" ELSE NoId)
                /\ pathCall.platform = NoPlatform
           /\ pathCall.linked <=> pathCall.gameId # NoId
           /\ pathCall.gameCreated <=> (pathCall.gameId # NoId /\ ~pathCall.known)

\* A guide below nes/12-zelda/faqs was linked to a new game 12 on NES.
C28_Witness ==
    /\ Imported
    /\ pathCall.folders = <<"nes", "12-zelda", "faqs">>
    /\ pathCall.gameId = "12"
    /\ pathCall.platform = "NES"
    /\ pathCall.gameCreated

(***************************************************************************)
(* C29.  parseGuide on a text-like file (txt, html or md) whose content is *)
(* empty after trimming returns a non-empty placeholder title and a        *)
(* non-empty placeholder content.                                          *)
(***************************************************************************)
C29_AsStated ==
    (parsed.detected \in {"txt", "html", "md"} /\ trim(parsed.file) = <<>>) =>
        /\ parsed.title # ""
        /\ parsed.content # <<>>

\* What holds: the placeholder is synthesized for txt only.
TxtPlaceholder ==
    (parsed.detected = "txt" /\ trim(parsed.file) = <<>>) =>
        /\ parsed.title = "Guide (Empty Guide)"
        /\ parsed.content = EmptyGuideContent

(***************************************************************************)
(* C30.  GET /api/health/ready answers 200 with ready = true exactly when  *)
(* the init stage is complete; in every other stage it answers 503 with    *)
(* ready = false, with the error message when the stage is error and with  *)
(* the current stage and progress otherwise.                               *)
(***************************************************************************)
ReadyAnswerFor(r, st) ==
    /\ r.code = 200 <=> st.stage = "complete"
    /\ r.code \in {200, 503}
    /\ r.ready = (r.code = 200)
    /\ st.stage = "complete" => DOMAIN r = {"code", "ready"}
    /\ st.stage = "error" =>
          /\ DOMAIN r = {"code", "ready", "error"}
          /\ r.error = st.error
    /\ st.stage \notin {"complete", "error"} =>
          /\ DOMAIN r = {"code", "ready", "stage", "progress"}
          /\ r.stage = st.stage
          /\ r.progress = st.progress

C30_ReadyAnswer ==
    readyResponse # NoResponse => ReadyAnswerFor(readyResponse, status)

\* A probe was answered 503 with the error message after a failed run.
C30_Witness ==
    /\ readyResponse # NoResponse
    /\ readyResponse.code = 503
    /\ status.stage = "error"
    /\ ipc = "failed"
    /\ "error" \in DOMAIN readyResponse

(***************************************************************************)
(* C31.  Deleting a Game deletes no Guide: every guide that referenced the *)
(* game remains in the store with its game reference set to null, every    *)
(* other guide is as it was, and the two index tables are unchanged.       *)
(***************************************************************************)
C31_GameDeleteKeepsGuides ==
    [][(games' # games /\ games' \subseteq games) =>
          LET gone == {g.id : g \in games \ games'}
          IN /\ guides' = {IF g.game \in gone THEN [g EXCEPT !.game = NoGame]
                           ELSE g : g \in guides}
             /\ Cardinality(guides') = Cardinality(guides)
             /\ ftsMeta' = ftsMeta
             /\ ftsContent' = ftsContent]_vars

\* A game with a guide was deleted: the guide is there without a game and
\* both index tables hold its entry.
C31_Witness ==
    /\ lastDelete.found
    /\ \E d \in lastDelete.dependents :
          /\ [d EXCEPT !.game = NoGame] \in guides
          /\ \E e \in ftsMeta : e.guide_id = d.id
          /\ \E e \in ftsContent : e.guide_id = d.id

(***************************************************************************)
(* C32.  bulkCreate is all-or-nothing: if the insert of any guide of the   *)
(* list is rejected, no guide of the list is stored and no index entry for *)
(* any of them remains (the tables are as before the call); otherwise all  *)
(* guides of the list are stored, each with its two index entries.         *)
(* bulkAllOrNothing states it of the tables right after a call, and        *)
(* C32_AllOrNothing of every call.                                         *)
(***************************************************************************)
bulkAllOrNothing ==
        LET list == lastBulk.list
            anyRejected == \E i \in 1..Len(list) : list[i].kind = "rejected"
            added == guides \ lastBulk.before.guides
        IN /\ lastBulk.threw <=> anyRejected
           /\ lastBulk.before.guides \subseteq guides
           /\ anyRejected =>
                 /\ added = {}
                 /\ ftsMeta = lastBulk.before.ftsMeta
                 /\ ftsContent = lastBulk.before.ftsContent
           /\ ~anyRejected =>
                 /\ Cardinality(added) = Len(list)
                 /\ \A g \in added :
                       /\ Cardinality({e \in ftsMeta : e.guide_id = g.id}) = 1
                       /\ Cardinality({e \in ftsContent : e.guide_id = g.id}) = 1
                 /\ Cardinality(ftsMeta) = Cardinality(guides)
                 /\ Cardinality(ftsContent) = Cardinality(guides)

C32_AllOrNothing == [][lastBulk' # lastBulk => bulkAllOrNothing']_vars

\* A list whose first guide was inserted and whose second was rejected
\* left nothing behind.
C32_Witness ==
    /\ lastBulk.called
    /\ Len(lastBulk.list) >= 2
    /\ lastBulk.list[1].kind = "ok"
    /\ lastBulk.list[2].kind = "rejected"
    /\ guides = lastBulk.before.guides
    /\ ftsMeta = lastBulk.before.ftsMeta

(***************************************************************************)
(* C33 as stated: every entry of the importer's game-id cache maps an      *)
(* external id to the id of a Game row that exists (inside a transaction:  *)
(* a row of the transaction), at every point of every import run, also     *)
(* after a batch whose transaction created the Game was rolled back.       *)
(***************************************************************************)
C33_AsStated ==
    \A e \in ExtIds :
        gameIdCache[e] # NoGame =>
            \E g \in games : g.id = gameIdCache[e] /\ g.ext = e

\* The cache entry of a rolled-back Game makes the retry of a well-formed
\* file fail: the guide insert names a game row that does not exist.
StaleCacheFailsRetry ==
    \A f \in retried :
        (/\ ~Malformed(f)
         /\ f \notin faulted
         /\ fileInfo[f].ext # NoExt
         /\ gameIdCache[fileInfo[f].ext] # NoGame
         /\ \A g \in games : g.id # gameIdCache[fileInfo[f].ext]) => ~HasRow(f)

(***************************************************************************)
(* C34 as stated: when an import run has ended, also one in which a batch  *)
(* was rolled back and retried one by one, imported + skipped + errors is  *)
(* the number of files found, and imported is the number of guide rows     *)
(* the run committed.                                                      *)
(***************************************************************************)
RunRows == {g \in CommittedGuides : g.file \in RunFiles}

C34_AsStated ==
    impc = "done" =>
        /\ stats.imported + stats.skipped + stats.errors = Len(guideFiles)
        /\ stats.imported = Cardinality(RunRows)

\* Without a rolled-back batch the totals are as stated.
TotalsWithoutRollback ==
    (impc = "done" /\ rolledBack = {}) =>
        /\ stats.imported + stats.skipped + stats.errors = Len(guideFiles)
        /\ stats.imported = Cardinality(RunRows)

(***************************************************************************)
(* C35.  Each file found yields at most one guide row per import run, at   *)
(* every point of the run and also after a batch was rolled back and its   *)
(* files were retried one by one.                                          *)
(***************************************************************************)
C35_AtMostOneRowPerFile ==
    \A f \in FileIds : Cardinality({g \in guides : g.file = f}) <= 1

\* A run has ended in which a batch was rolled back after it had inserted
\* a file, and the retry committed that file.
C35_Witness ==
    /\ impc = "done"
    /\ \E f \in retried :
          /\ HasRow(f)
          /\ \E b \in rolledBack : f > b /\ f <= b + BATCH_SIZE

(***************************************************************************)
(* C38.  At most one import runs at a time: a call of importFromDirectory  *)
(* while another is in progress throws without touching the store, the     *)
(* files or the in-progress flag; the flag is set exactly while a run is   *)
(* in progress, so after a run has ended, by return or by exception, the   *)
(* next call is accepted.                                                  *)
(***************************************************************************)
ImportRunning == impc \notin {"idle", "done", "threw"}

C38_OneImportAtATime ==
    [][/\ importLog'.rejected > importLog.rejected =>
            /\ isImporting' = isImporting
            /\ UNCHANGED <<fsVars, storeVars, gameIdCache, stats, impc>>
       /\ isImporting' <=> ImportRunning'
       /\ (impc = "idle" /\ impc' # "idle") => (~isImporting /\ isImporting')]_vars

\* A call was rejected during the second run of the importer object; that
\* run, accepted after the first had ended, went on and has ended.
C38_Witness ==
    /\ importLog.runs = 1
    /\ importLog.rejected = 1
    /\ impc = "done"
    /\ guides # {}

(***************************************************************************)
(* C36 as stated: whenever initialize has run the pipeline and has ended,  *)
(* with stage complete or error, whichever stage failed, neither the       *)
(* downloaded archive nor the extraction directory is left, given that no  *)
(* deletion that was attempted threw.                                      *)
(***************************************************************************)
PipelineEnded == ipc \in {"done", "failed"} /\ ~hadGuides
\* No deletion threw, and none that the downloader issued is still pending.
DeletionsSucceeded == ~cleanupFailed /\ ~dlUnlinkFailed /\ unlinkPending = 0

C36_AsStated ==
    (PipelineEnded /\ DeletionsSucceeded) => (~archiveFile /\ ~extractedDir)

\* What does hold: the extraction directory is gone at the end of every
\* run, and the archive at the end of every run that reached the import.
DirectoryRemoved ==
    (PipelineEnded /\ DeletionsSucceeded) =>
        /\ ~extractedDir
        /\ (archiveFile => expc = "failed" \/ dlSettled = "rejected")

\* A failed extraction leaves the archive: the catch of initialize removes
\* the extraction directory only.
FailedExtractKeepsArchive ==
    (ipc = "failed" /\ expc = "failed" /\ priorRun = "none") => archiveFile

(***************************************************************************)
(* C37 as stated: the schema upgrade is idempotent under interruption: if  *)
(* the process stopped inside a migration, the next runMigrations          *)
(* completes the upgrade to SCHEMA_VERSION without an error and without a  *)
(* second index entry for any guide.                                       *)
(***************************************************************************)
OneIndexRowPerGuide ==
    \A g \in guides :
        /\ Cardinality({e \in ftsMeta : e.guide_id = g.id}) <= 1
        /\ Cardinality({e \in ftsContent : e.guide_id = g.id}) <= 1

C37_AsStated ==
    (interruptedAt # {} /\ mpc \in {"ok", "threw"}) =>
        /\ mpc = "ok"
        /\ getCurrentVersion = SCHEMA_VERSION
        /\ OneIndexRowPerGuide

\* After a stop between the ALTER TABLE of migration 7 and its version
\* row, no later start gets past migration 7.
StopInSevenIsFinal ==
    (7 \in interruptedAt /\ mpc \in {"ok", "threw"}) =>
        mpc = "threw" /\ getCurrentVersion = 6

\* After a stop between the INSERT ... SELECT of migration 6 and its
\* version row, the next start indexes every guide a second time.
StopInSixDuplicates ==
    (6 \in interruptedAt /\ 6 \in schemaVersions) => ~OneIndexRowPerGuide

(***************************************************************************)
(* C39.  For each client IP the rate limiter forwards at most max requests *)
(* within one window of windowMs and answers 429 to the further requests   *)
(* of that IP in the window; a request of one IP changes nothing for       *)
(* another IP; the first request after the window has ended starts a new   *)
(* window with a count of one and is forwarded.                            *)
(***************************************************************************)
AtMostMaxPerWindow ==
    \A ip \in Ips : windowLog[ip].forwarded <= max

C39_RateLimitPerIp ==
    [][rlStore' # rlStore =>
        LET ip == lastRequest'.ip
            ended == windowLog[ip].n = 0 \/ now >= windowLog[ip].start + windowMs
            before == IF ended THEN 0 ELSE windowLog[ip].forwarded
        IN /\ AtMostMaxPerWindow'
           /\ \A other \in Ips \ {ip} :
                 /\ rlStore'[other] = rlStore[other]
                 /\ windowLog'[other] = windowLog[other]
           /\ lastRequest'.code \in {200, 429}
           /\ lastRequest'.code = 429 <=> before >= max
           /\ ended => /\ rlStore'[ip] = [count |-> 1, resetAt |-> now + windowMs]
                       /\ lastRequest'.code = 200]_vars

\* A client's first request after its first window was forwarded with a
\* count of one, while the other client has used up its window and was
\* answered 429 in it.
C39_Witness ==
    \E ip \in Ips : \E other \in Ips \ {ip} :
        /\ windowLog[ip].n = 2
        /\ lastRequest = [ip |-> ip, code |-> 200]
        /\ rlStore[ip].count = 1
        /\ windowLog[other].forwarded = max
        /\ windowLog[other].rejected > 0

(***************************************************************************)
(* C40 as stated: at most one batch AI analysis at a time: while a batch   *)
(* start request has been accepted (it awaits the availability check or    *)
(* its deferred start, or its analyzeBatch runs), no other request is      *)
(* accepted, so no two analyzeBatch calls run on the shared progress.      *)
(***************************************************************************)
BatchAccepted ==
    {r \in Requests : batchReq[r].pc \in {"checking", "deferred", "analyzing"}}

C40_AsStated == Cardinality(BatchAccepted) <= 1

\* What the guard does ensure: a request that arrives while analyzeBatch
\* runs (status running) is answered 409.
RejectedWhileRunning ==
    [][\A r \in Requests :
          (batchReq[r].pc = "none" /\ batchReq'[r].pc # "none" /\ isBatchRunning)
              => batchReq'[r].pc = "409"]_vars

=============================================================================
